---- MODULE Spec2Model ----
(***************************************************************************)
(* Verification model of the result-analysis scripts of TAI_Project3.      *)
(*                                                                         *)
(* The scripts are independent batch programs; each one is modelled by its *)
(* own group of variables and its own specification:                       *)
(*   SpecAcc      scripts/calculate_accuracy.py (calculate_accuracy_metrics)*)
(*   SpecPlots      generate_plots/plots.py (main, load_data, save_metrics) *)
(*   SpecAnalyzer   scripts/generate_plots.py (ResultsAnalyzer)             *)
(*   SpecVisualizer scripts/plots.py (MusicIdentificationVisualizer)        *)
(*   SpecTestPlots  tests/plots/small_samples/generate_accuracy_plots.py    *)
(*   SpecOutliers   visualization/plot_nrc.py (track_outliers)              *)
(*   SpecRank       visualization/plot_nrc.py (plot_rank_stability)         *)
(*   SpecVisualize  visualization/visualize_results.py (main)              *)
(*   SpecAllPlots   scripts/generate_plots.py (generate_all_plots)         *)
(*   SpecEvaluator  scripts/evaluate_parameters.py (ParameterEvaluator)    *)
(*   SpecProfile    project1/generate_plots/plot_complextity_profile.py    *)
(*   SpecOptimalConfigs scripts/generate_optimal_configs.py                *)
(*   SpecBest       the best configuration as three scripts choose it      *)
(*   SpecLatest     visualization/visualize_results.py, changing input     *)
(*   SpecGenre      scripts/generate_plots_genres.py (GenreAnalyzer)       *)
(* A specification leaves the variables of the other scripts at their      *)
(* idle values.                                                            *)
(***************************************************************************)
EXTENDS Integers, Sequences, FiniteSets, TLC

(***************************************************************************)
(* Generic helpers                                                         *)
(***************************************************************************)

\* Python's None where an integer is expected (a rank number is never negative)
None == -1

Range(s) == {s[i] : i \in 1..Len(s)}

\* all sequences over S of length 0..n
SeqsUpTo(S, n) == UNION {[1..m -> S] : m \in 0..n}

\* s[:n] of a Python list
Take(s, n) == SubSeq(s, 1, IF Len(s) < n THEN Len(s) ELSE n)

RECURSIVE SumSeq(_)
SumSeq(s) == IF s = <<>> THEN 0 ELSE s[1] + SumSeq(Tail(s))

(***************************************************************************)
(* scripts/calculate_accuracy.py                                           *)
(*                                                                         *)
(* Song names are sequences of characters, already passed through          *)
(* extract_song_name and normalize_song_name (lower case, single spaces,   *)
(* stripped); the empty name is the one normalize_song_name returns for a  *)
(* query it cannot extract anything from.                                  *)
(***************************************************************************)

\* bounds of the model
MaxFiles == 2
MaxLines == 2

\* str.split(): the set of the maximal space-free pieces of a name
RECURSIVE SplitWords(_, _)
SplitWords(name, cur) ==
    IF name = <<>> THEN (IF cur = <<>> THEN {} ELSE {cur})
    ELSE IF Head(name) = " "
         THEN (IF cur = <<>> THEN {} ELSE {cur}) \cup SplitWords(Tail(name), <<>>)
         ELSE SplitWords(Tail(name), Append(cur, Head(name)))

\* Python's `a in b` on strings
IsSubstring(a, b) ==
    \E i \in 0..(Len(b) - Len(a)) : SubSeq(b, i + 1, i + Len(a)) = a

fuzzy_match(name1, name2) ==
    IF name1 = name2 THEN TRUE
    ELSE IF Len(name1) > 3 /\ Len(name2) > 3
            /\ (IsSubstring(name1, name2) \/ IsSubstring(name2, name1))
    THEN TRUE
    ELSE LET words1 == SplitWords(name1, <<>>)
             words2 == SplitWords(name2, <<>>)
             shorter_words == IF Cardinality(words1) <= Cardinality(words2)
                              THEN words1 ELSE words2
             longer_words  == IF Cardinality(words1) <= Cardinality(words2)
                              THEN words2 ELSE words1
         IN IF words1 = {} \/ words2 = {} THEN FALSE
            ELSE shorter_words \subseteq longer_words

\* normalized ground-truth names a query can carry ("" = nothing extracted)
GroundTruths == { <<>>, <<"a","b"," ","c","d">> }

\* normalized candidate names of the database files
Candidates == { <<"x"," ","a","b"," ","c","d">>,
                <<"c","d"," ","a","b">>,
                <<"x","y">> }

\* rank numbers a data row of a result file can carry
RankNumbers == {1, 2, 6, 11}

\* A line of the CSV section: a data row "rank,filename,ncd" or a line whose
\* rank or score does not parse (int()/float() raise ValueError)
DataLines == [rank : RankNumbers, name : Candidates]
JunkLine == [rank |-> None, name |-> <<>>]
Lines == DataLines \cup {JunkLine}

\* A result file: readable or not, its "Query:" name, its lines
ResultFiles ==
    [readable : {TRUE}, query : GroundTruths, lines : SeqsUpTo(Lines, MaxLines)]
    \cup {[readable |-> FALSE, query |-> <<>>, lines |-> <<>>]}

\* the rows that survive the try/except of the row parser, in file order
RECURSIVE ParseRows(_)
ParseRows(lines) ==
    IF lines = <<>> THEN <<>>
    ELSE IF Head(lines).rank = None THEN ParseRows(Tail(lines))
         ELSE <<Head(lines)>> \o ParseRows(Tail(lines))

\* load_results_csv: (query_name, results); ("", []) when open() fails
load_results_csv(file) ==
    IF ~file.readable THEN [query_name |-> <<>>, results |-> <<>>]
    ELSE [query_name |-> file.query, results |-> ParseRows(file.lines)]

\* the loop `for rank, filename, ncd_score in results[:10]` with its break:
\* the rank number of the first matching row among the first ten, or None
RECURSIVE FirstMatchRank(_, _)
FirstMatchRank(ground_truth, rows) ==
    IF rows = <<>> THEN None
    ELSE IF fuzzy_match(ground_truth, Head(rows).name) THEN Head(rows).rank
         ELSE FirstMatchRank(ground_truth, Tail(rows))

found_at_rank_of(ground_truth, results) ==
    FirstMatchRank(ground_truth, Take(results, 10))

\* mutant of TopKHit: the rank has to equal K
TopKHit_Exact(found_at_rank, K) ==
    IF found_at_rank # None /\ found_at_rank = K THEN 1 ELSE 0

\* `if found_at_rank is not None: if found_at_rank <= K: topK_correct += 1`
TopKHit(found_at_rank, K) ==
    IF found_at_rank # None /\ found_at_rank <= K THEN 1 ELSE 0

\* what a file is in the loop of calculate_accuracy_metrics
FileOutcome(file) ==
    LET loaded == load_results_csv(file)
    IN IF loaded.results = <<>> THEN "no_results"
       ELSE IF loaded.query_name = <<>> THEN "no_ground_truth"
       ELSE "query"

\* position-based reading of Top-K: the ground truth matches one of the first
\* K entries listed in the file
MatchesWithinFirst(file, K) ==
    LET loaded == load_results_csv(file)
    IN \E i \in 1..Len(loaded.results) :
          i <= K /\ fuzzy_match(loaded.query_name, loaded.results[i].name)

VARIABLES
    accPc,             \* "loop" | "done": position in calculate_accuracy_metrics
    files_left,        \* result files the loop has still to visit
    total_queries,
    top1_correct,
    top5_correct,
    top10_correct,
    detailed_results,  \* list of per-query entries
    summary,           \* <<>> before the return and for a None return, else <<the summary>>
    position_hits,     \* history: processed queries matching within the first 1 / 5 / 10 entries
    last_file          \* history: outcome of the file visited last

accVars == <<accPc, files_left, total_queries, top1_correct, top5_correct,
             top10_correct, detailed_results, summary, position_hits, last_file>>

AccIdle ==
    /\ accPc = "idle"
    /\ files_left = 0
    /\ total_queries = 0
    /\ top1_correct = 0
    /\ top5_correct = 0
    /\ top10_correct = 0
    /\ detailed_results = <<>>
    /\ summary = <<>>
    /\ position_hits = [top1 |-> 0, top5 |-> 0, top10 |-> 0]
    /\ last_file = "none"

\* state at the head of the loop over result_files (lines 158-172)
AccInit ==
    /\ accPc = "loop"
    /\ files_left \in 0..MaxFiles
    /\ total_queries = 0
    /\ top1_correct = 0
    /\ top5_correct = 0
    /\ top10_correct = 0
    /\ detailed_results = <<>>
    /\ summary = <<>>
    /\ position_hits = [top1 |-> 0, top5 |-> 0, top10 |-> 0]
    /\ last_file = "none"

\* one iteration of `for result_file in result_files` (lines 175-247)
ProcessResultFile ==
    /\ accPc = "loop"
    /\ files_left > 0
    /\ \E file \in ResultFiles :
         LET loaded == load_results_csv(file)
             ground_truth == loaded.query_name
             found_at_rank == found_at_rank_of(ground_truth, loaded.results)
             top_match == loaded.results[1]
         IN IF FileOutcome(file) # "query"
            THEN \* `continue` before total_queries += 1
                 /\ UNCHANGED <<total_queries, top1_correct, top5_correct,
                                top10_correct, detailed_results, position_hits>>
                 /\ last_file' = (IF file.readable THEN FileOutcome(file) ELSE "unreadable")
            ELSE /\ total_queries' = total_queries + 1
                 /\ top1_correct' = top1_correct + TopKHit(found_at_rank, 1)
                 /\ top5_correct' = top5_correct + TopKHit(found_at_rank, 5)
                 /\ top10_correct' = top10_correct + TopKHit(found_at_rank, 10)
                 /\ detailed_results' = Append(detailed_results,
                        [found_at_rank |-> found_at_rank,
                         correct |-> fuzzy_match(ground_truth, top_match.name)])
                 /\ position_hits' =
                        [top1  |-> position_hits.top1
                                   + (IF MatchesWithinFirst(file, 1) THEN 1 ELSE 0),
                         top5  |-> position_hits.top5
                                   + (IF MatchesWithinFirst(file, 5) THEN 1 ELSE 0),
                         top10 |-> position_hits.top10
                                   + (IF MatchesWithinFirst(file, 10) THEN 1 ELSE 0)]
                 /\ last_file' = "query"
    /\ files_left' = files_left - 1
    /\ UNCHANGED <<accPc, summary>>

\* a percentage (c / total) * 100 kept exact as a fraction
Percent(c, total) == [num |-> 100 * c, den |-> total]
FracLeq(a, b) == a.num * b.den <= b.num * a.den

\* lines 249-285: the summary, or None when no query was processed
ReturnSummary ==
    /\ accPc = "loop"
    /\ files_left = 0
    /\ accPc' = "done"
    /\ summary' =
         IF total_queries > 0
         THEN << [total_queries |-> total_queries,
               top1_correct |-> top1_correct,
               top5_correct |-> top5_correct,
               top10_correct |-> top10_correct,
               top1_accuracy |-> Percent(top1_correct, total_queries),
               top5_accuracy |-> Percent(top5_correct, total_queries),
               top10_accuracy |-> Percent(top10_correct, total_queries),
               detailed_results |-> detailed_results] >>
         ELSE <<>>
    /\ UNCHANGED <<files_left, total_queries, top1_correct, top5_correct,
                   top10_correct, detailed_results, position_hits, last_file>>


(***************************************************************************)
(* generate_plots/plots.py                                                 *)
(*                                                                         *)
(* A row of ../results/test_results.csv keeps the columns the aggregations *)
(* read: File, k, alpha (in hundredths), RecursiveStep, AvgInfoContent and *)
(* ModelSize.  Means are kept exact as (sum, count).                       *)
(***************************************************************************)

\* bound of the model: rows of the CSV file
MaxRows == 3

\* values of the File column: a path with directory, stem and extension
RawFiles == { [dir |-> "a", stem |-> "s1", ext |-> ".txt"],
              [dir |-> "b", stem |-> "s1", ext |-> ".seq"],
              [dir |-> "a", stem |-> "s2", ext |-> ".txt"] }

\* os.path.splitext(os.path.basename(x))[0]
FileStem(path) == path.stem

\* rows that differ in sequence, model size and step
FilterRows ==
    [File : RawFiles, k : {1}, alpha : {10}, RecursiveStep : {0, 1},
     AvgInfoContent : {1}, ModelSize : {0, 7}]

\* rows of one sequence that differ in k, step and information content
MetricRows ==
    [File : {[dir |-> "a", stem |-> "s1", ext |-> ".txt"]}, k : {1, 2},
     alpha : {10}, RecursiveStep : {0, 1}, AvgInfoContent : {1, 2, 4},
     ModelSize : {7}]

CsvTables == SeqsUpTo(FilterRows, MaxRows) \cup SeqsUpTo(MetricRows, MaxRows)

\* df[column].unique() as a set
ColumnValues(frame, column) == {frame[i][column] : i \in 1..Len(frame)}

\* mutant of load_data: only the rows with ModelSize == 0 are removed
load_data_RowsOnly(rows) ==
    LET renamed == [i \in 1..Len(rows) |->
                       [rows[i] EXCEPT !.File = FileStem(rows[i].File)]]
        Kept(r) == r.ModelSize # 0
    IN SelectSeq(renamed, Kept)

\* load_data: File becomes the stem, then every File with a ModelSize == 0
\* row is removed
load_data(rows) ==
    LET renamed == [i \in 1..Len(rows) |->
                       [rows[i] EXCEPT !.File = FileStem(rows[i].File)]]
        files_to_remove == {renamed[i].File : i \in
                               {j \in 1..Len(rows) : renamed[j].ModelSize = 0}}
        Kept(r) == r.File \notin files_to_remove
    IN SelectSeq(renamed, Kept)

\* frame.sort_values("RecursiveStep"): for frames this short the sort is an
\* insertion sort, which keeps rows of equal step in frame order
RECURSIVE InsertByStep(_, _)
InsertByStep(sorted, row) ==
    IF sorted = <<>> THEN <<row>>
    ELSE IF Head(sorted).RecursiveStep <= row.RecursiveStep
         THEN <<Head(sorted)>> \o InsertByStep(Tail(sorted), row)
         ELSE <<row>> \o sorted

RECURSIVE sort_values_RecursiveStep(_)
sort_values_RecursiveStep(frame) ==
    IF frame = <<>> THEN <<>>
    ELSE InsertByStep(sort_values_RecursiveStep(SubSeq(frame, 1, Len(frame) - 1)),
                      frame[Len(frame)])

Abs(x) == IF x < 0 THEN -x ELSE x

\* frame["AvgInfoContent"].diff().abs().dropna()
AbsDiffs(frame) ==
    [i \in 1..(Len(frame) - 1) |->
        Abs(frame[i + 1].AvgInfoContent - frame[i].AvgInfoContent)]

MinOf(S) == CHOOSE x \in S : \A y \in S : x <= y
MaxOf(S) == CHOOSE x \in S : \A y \in S : y <= x

\* df_seq.groupby("RecursiveStep")["AvgInfoContent"].agg(["mean","min","max"])
step_metrics(df_seq) ==
    { LET InStep(r) == r.RecursiveStep = step
          values == [i \in 1..Len(SelectSeq(df_seq, InStep)) |->
                        SelectSeq(df_seq, InStep)[i].AvgInfoContent]
      IN [RecursiveStep |-> step,
          mean |-> <<SumSeq(values), Len(values)>>,
          min |-> MinOf(Range(values)),
          max |-> MaxOf(Range(values))]
      : step \in ColumnValues(df_seq, "RecursiveStep") }

\* the changes between consecutive rows of one (k, alpha) after the sort
ChangesOf(df_seq, k, alpha) ==
    LET InGroup(r) == r.k = k /\ r.alpha = alpha
        df_params == SelectSeq(df_seq, InGroup)
    IN IF Len(df_params) > 1
       THEN AbsDiffs(sort_values_RecursiveStep(df_params))
       ELSE <<>>

\* save_metrics, lines 245-258: avg_change per (k, alpha)
convergence_data(df_seq) ==
    { [k |-> k, alpha |-> alpha,
       avg_change |-> <<SumSeq(ChangesOf(df_seq, k, alpha)),
                        Len(ChangesOf(df_seq, k, alpha))>>]
      : <<k, alpha>> \in
          { ka \in ColumnValues(df_seq, "k") \X ColumnValues(df_seq, "alpha") :
              ChangesOf(df_seq, ka[1], ka[2]) # <<>> } }

\* plot_convergence_analysis: variance_data (lines 172-188) grouped by
\* (k, alpha) and averaged (line 215)
convergence_heatmap(df_seq) ==
    { [k |-> k, alpha |-> alpha,
       InfoContentChange |-> <<SumSeq(ChangesOf(df_seq, k, alpha)),
                               Len(ChangesOf(df_seq, k, alpha))>>]
      : <<k, alpha>> \in
          { ka \in ColumnValues(df_seq, "k") \X ColumnValues(df_seq, "alpha") :
              ChangesOf(df_seq, ka[1], ka[2]) # <<>> } }

SequenceFrame(frame, sequence) ==
    LET OfSequence(r) == r.File = sequence
    IN SelectSeq(frame, OfSequence)

\* save_metrics: the entry of metrics_summary.txt of each sequence
save_metrics(frame) ==
    [sequence \in ColumnValues(frame, "File") |->
        [step_metrics |-> step_metrics(SequenceFrame(frame, sequence)),
         convergence |-> convergence_data(SequenceFrame(frame, sequence))]]

\* the per-sequence plots of generate_plots (lines 333-346)
sequence_plots(frame) ==
    [sequence \in ColumnValues(frame, "File") |->
        [convergence_heatmap |-> convergence_heatmap(SequenceFrame(frame, sequence))]]

VARIABLES
    plotsPc,          \* "main" | "loaded" | "done" | "raised": position in main
    csv_exists,       \* whether ../results/test_results.csv exists
    csv_rows,         \* its rows
    df,               \* the frame load_data returned
    metrics_summary,  \* what save_metrics wrote, per sequence
    seq_plots,        \* the per-sequence plot folders and their convergence heatmaps
    aggregate_files   \* the sequences in the cross-sequence comparison plots

plotsVars == <<plotsPc, csv_exists, csv_rows, df, metrics_summary, seq_plots,
               aggregate_files>>

PlotsIdle ==
    /\ plotsPc = "idle"
    /\ csv_exists = FALSE
    /\ csv_rows = <<>>
    /\ df = <<>>
    /\ metrics_summary = <<>>
    /\ seq_plots = <<>>
    /\ aggregate_files = {}

PlotsInit ==
    /\ plotsPc = "main"
    /\ csv_exists \in BOOLEAN
    /\ csv_rows \in (IF csv_exists THEN CsvTables ELSE {<<>>})
    /\ df = <<>>
    /\ metrics_summary = <<>>
    /\ seq_plots = <<>>
    /\ aggregate_files = {}

\* main, line 355: df = load_data(...); pd.read_csv raises FileNotFoundError
\* when the file is missing and main does not catch it
MainLoadData ==
    /\ plotsPc = "main"
    /\ IF csv_exists
       THEN /\ df' = load_data(csv_rows)
            /\ plotsPc' = "loaded"
       ELSE /\ df' = df
            /\ plotsPc' = "raised"
    /\ UNCHANGED <<csv_exists, csv_rows, metrics_summary, seq_plots, aggregate_files>>

\* main, line 356: generate_plots(df, base_folder)
MainGeneratePlots ==
    /\ plotsPc = "loaded"
    /\ seq_plots' = sequence_plots(df)
    /\ metrics_summary' = save_metrics(df)
    /\ aggregate_files' = ColumnValues(df, "File")
    /\ plotsPc' = "done"
    /\ UNCHANGED <<csv_exists, csv_rows, df>>


(***************************************************************************)
(* The accuracy files of the method x format x noise x compressor sweep    *)
(*                                                                         *)
(* accuracy_files gives, for every combination, what the file              *)
(* accuracy_metrics_{compressor}.json of that combination is: absent,      *)
(* unreadable (open() or json.load raises), or a JSON object, whose        *)
(* top1_accuracy is a number or null (None).                               *)
(***************************************************************************)

\* bound of the model: the combinations whose file differs from the rest
MaxOddFiles == 1

methods == <<"maxfreq", "spectral">>
formats == <<"text", "binary">>
noises == <<"clean", "brown", "pink", "white">>
compressors == <<"gzip", "bzip2", "lzma", "zstd">>

Combinations == Range(methods) \X Range(formats) \X Range(noises) \X Range(compressors)

AbsentFile == [kind |-> "absent", top1_accuracy |-> None]
UnreadableFile == [kind |-> "unreadable", top1_accuracy |-> None]
MetricsFile(top1) == [kind |-> "json", top1_accuracy |-> top1]

\* the subsets of S with at most n elements
RECURSIVE SubsetsUpTo(_, _)
SubsetsUpTo(S, n) ==
    IF n = 0 THEN {{}}
    ELSE LET smaller == SubsetsUpTo(S, n - 1)
         IN smaller \cup {P \cup {x} : P \in smaller, x \in S}

\* a directory tree: every file the same, but for at most MaxOddFiles of them
AccuracyTrees(base_files, odd_files) ==
    { [c \in Combinations |-> IF c \in DOMAIN odd THEN odd[c] ELSE base] :
        base \in base_files,
        odd \in UNION { [picked -> odd_files] :
                          picked \in SubsetsUpTo(Combinations, MaxOddFiles) } }

(***************************************************************************)
(* scripts/generate_plots.py: ResultsAnalyzer (dataset 'youtube')          *)
(***************************************************************************)

\* the key the nested loops of load_all_data reach in their i-th iteration
KeyAt(i) ==
    LET n == i - 1
        nc == Len(compressors)
        nn == Len(noises)
        nf == Len(formats)
    IN << methods[(n \div (nc * nn * nf)) + 1],
          formats[((n \div (nc * nn)) % nf) + 1],
          noises[((n \div nc) % nn) + 1],
          compressors[(n % nc) + 1] >>

TotalCombinations == Len(methods) * Len(formats) * Len(noises) * Len(compressors)

\* the keys in the order the nested loops of load_all_data visit them
KeySeq == [i \in 1..TotalCombinations |-> KeyAt(i)]

\* load_all_data, lines 63-66: path.exists() and json.load(f) succeeds
FileLoads(file) == file.kind # "absent" /\ file.kind # "unreadable"

\* load_all_data, lines 67-71: the except branch and the else branch both
\* append the key to missing_combinations
FileMisses(file) ==
    \/ file.kind # "absent" /\ file.kind = "unreadable"
    \/ file.kind = "absent"

\* load_all_data: the dict of loaded files and the list of missing keys
load_all_data(files) ==
    LET Loaded(key) == FileLoads(files[key])
        Missed(key) == FileMisses(files[key])
    IN [data |-> [key \in {k \in Range(KeySeq) : Loaded(k)} |-> files[key]],
        missing_combinations |-> SelectSeq(KeySeq, Missed)]

\* mutant of get_accuracy: a missing key reads as 0.0
get_accuracy_Default(loaded_data, method, format_type, noise, compressor) ==
    IF <<method, format_type, noise, compressor>> \in DOMAIN loaded_data
    THEN loaded_data[<<method, format_type, noise, compressor>>].top1_accuracy
    ELSE 0

\* get_accuracy, single dataset: self.data[key].get(metric) or None
get_accuracy(loaded_data, method, format_type, noise, compressor) ==
    IF <<method, format_type, noise, compressor>> \in DOMAIN loaded_data
    THEN loaded_data[<<method, format_type, noise, compressor>>].top1_accuracy
    ELSE None

\* get_missing_data_message: the counts the message states, if it states any
get_missing_data_message(available_count, total_count) ==
    IF available_count = 0 THEN [text |-> "No data available", missing |-> None]
    ELSE IF available_count < total_count
    THEN [text |-> "Showing available/total combinations (missing)",
          missing |-> total_count - available_count]
    ELSE [text |-> "", missing |-> None]

\* create_accuracy_heatmap, one noise (lines 119-179): the annotation of
\* every cell and the title's message
NoiseHeatmap(loaded_data, noise) ==
    LET cells == Range(methods) \X Range(formats) \X Range(compressors)
        matrix == [c \in cells |-> get_accuracy(loaded_data, c[1], c[2], noise, c[3])]
        available_data_count == Cardinality({c \in cells : matrix[c] # None})
        total_possible == Len(methods) * Len(formats) * Len(compressors)
    IN IF available_data_count > 0
       THEN [drawn |-> TRUE,
             annotation |-> [c \in cells |->
                                IF matrix[c] # None THEN "value" ELSE "N/A"],
             title |-> get_missing_data_message(available_data_count, total_possible)]
       ELSE [drawn |-> FALSE,
             annotation |-> [c \in cells |-> "none"],
             title |-> [text |-> "", missing |-> None]]

VARIABLES
    accuracy_files,        \* the accuracy files on disk, per combination
    raPc,                  \* "new" | "loaded" | "heatmap": position in the ResultsAnalyzer run
    data,                  \* self.data
    missing_combinations,  \* the local list of load_all_data
    heatmap,               \* per noise, what create_accuracy_heatmap drew
    ra_pngs                \* the PNG files saved into output_dir

filesVars == <<accuracy_files>>
raVars == <<raPc, data, missing_combinations, heatmap, ra_pngs>>

FilesIdle == accuracy_files = [c \in Combinations |-> AbsentFile]

RaIdle ==
    /\ raPc = "idle"
    /\ data = <<>>
    /\ missing_combinations = <<>>
    /\ heatmap = <<>>
    /\ ra_pngs = {}

RaInit ==
    /\ accuracy_files \in
          AccuracyTrees({AbsentFile, MetricsFile(90)},
                        {AbsentFile, UnreadableFile, MetricsFile(None), MetricsFile(40)})
    /\ raPc = "new"
    /\ data = <<>>
    /\ missing_combinations = <<>>
    /\ heatmap = <<>>
    /\ ra_pngs = {}

\* ResultsAnalyzer.__init__: self.data = self.load_all_data()
RaLoadAllData ==
    /\ raPc = "new"
    /\ data' = load_all_data(accuracy_files).data
    /\ missing_combinations' = load_all_data(accuracy_files).missing_combinations
    /\ raPc' = "loaded"
    /\ UNCHANGED <<accuracy_files, heatmap, ra_pngs>>

\* create_accuracy_heatmap
RaCreateAccuracyHeatmap ==
    /\ raPc = "loaded"
    /\ heatmap' = [noise \in Range(noises) |-> NoiseHeatmap(data, noise)]
    /\ ra_pngs' = ra_pngs \cup {"accuracy_heatmap"}
    /\ raPc' = "heatmap"
    /\ UNCHANGED <<accuracy_files, data, missing_combinations>>

\* the results trees of a sweep run for some noises and some compressors only
SweepTrees ==
    { [c \in Combinations |->
          IF c[3] \in run_noises /\ c[4] \in run_compressors
          THEN MetricsFile(90) ELSE AbsentFile]
      : run_noises \in SUBSET Range(noises), run_compressors \in SUBSET Range(compressors) }

RaSweepInit ==
    /\ accuracy_files \in SweepTrees
    /\ raPc = "new"
    /\ data = <<>>
    /\ missing_combinations = <<>>
    /\ heatmap = <<>>
    /\ ra_pngs = {}

\* generate_all_plots, line 780: create_compressor_ranking saves its figure
\* whether or not a compressor has data
RaCreateCompressorRanking ==
    /\ raPc = "heatmap"
    /\ ra_pngs' = ra_pngs \cup {"compressor_ranking"}
    /\ raPc' = "compressor_ranking"
    /\ UNCHANGED <<accuracy_files, data, missing_combinations, heatmap>>

\* generate_all_plots, line 781: create_format_comparison
RaCreateFormatComparison ==
    /\ raPc = "compressor_ranking"
    /\ ra_pngs' = ra_pngs \cup {"format_comparison"}
    /\ raPc' = "format_comparison"
    /\ UNCHANGED <<accuracy_files, data, missing_combinations, heatmap>>

\* generate_all_plots, line 782: create_method_comparison
RaCreateMethodComparison ==
    /\ raPc = "format_comparison"
    /\ ra_pngs' = ra_pngs \cup {"method_comparison"}
    /\ raPc' = "method_comparison"
    /\ UNCHANGED <<accuracy_files, data, missing_combinations, heatmap>>

\* generate_all_plots, line 783: create_noise_comparison
RaCreateNoiseComparison ==
    /\ raPc = "method_comparison"
    /\ ra_pngs' = ra_pngs \cup {"noise_comparison"}
    /\ raPc' = "noise_comparison"
    /\ UNCHANGED <<accuracy_files, data, missing_combinations, heatmap>>

\* generate_all_plots, lines 784-789: create_performance_overview draws the
\* first of its four subplots and ends at line 757, where a nested def of
\* generate_all_plots begins; it calls neither savefig nor close.  Then the
\* PNG files of the output directory are listed and generate_all_plots
\* returns.
RaCreatePerformanceOverview ==
    /\ raPc = "noise_comparison"
    /\ raPc' = "returned"
    /\ UNCHANGED <<accuracy_files, data, missing_combinations, heatmap, ra_pngs>>

(***************************************************************************)
(* scripts/plots.py: MusicIdentificationVisualizer.load_all_results        *)
(***************************************************************************)

\* Path(results_dir).parts for the directories the visualizer is given
ResultsDirs == { <<"results">>, <<"..", "results">>, <<"scripts", "..", "results">> }

\* Path(result_file).parts of the accuracy file of a combination:
\* results_dir/compressors/youtube/{method}/{format}/{noise}_{compressor}/
\* accuracy_metrics_{compressor}.json
PathParts(dir, key) ==
    dir \o << "compressors", "youtube", key[1], key[2], <<key[3], key[4]>>,
              <<"accuracy_metrics_", key[4], ".json">> >>

\* parts[-n] of a Python tuple
FromEnd(parts, n) == parts[Len(parts) - n + 1]

\* load_all_results, lines 45-79, for one globbed file: the entry appended to
\* results_data, if any.  The entry is appended (line 73) before the print of
\* line 74 formats top1_accuracy with :.1f, which raises for a non-number; the
\* except of line 76 then reports the file and the entry stays in the list.
LoadedEntries(dir, key, file) ==
    LET parts == PathParts(dir, key)
    IN IF Len(parts) < 8 THEN {}
       ELSE IF file.kind = "unreadable" THEN {}
       ELSE { [method |-> FromEnd(parts, 5),
               format |-> FromEnd(parts, 4),
               noise |-> FromEnd(parts, 3),
               compressor |-> FromEnd(parts, 1)[2],
               top1_accuracy |-> file.top1_accuracy] }

\* load_all_results: glob finds every file that exists
load_all_results(dir, files) ==
    UNION { LoadedEntries(dir, key, files[key]) :
              key \in {k \in Combinations : files[k].kind # "absent"} }

VARIABLES
    mivPc,         \* "new" | "loaded"
    results_dir,   \* Path(results_dir).parts
    results_data   \* self.results_data

mivVars == <<mivPc, results_dir, results_data>>

MivIdle ==
    /\ mivPc = "idle"
    /\ results_dir = <<>>
    /\ results_data = {}

MivInit ==
    /\ accuracy_files \in
          AccuracyTrees({AbsentFile, MetricsFile(90)},
                        {AbsentFile, UnreadableFile, MetricsFile(None), MetricsFile(40)})
    /\ mivPc = "new"
    /\ results_dir \in ResultsDirs
    /\ results_data = {}

MivLoadAllResults ==
    /\ mivPc = "new"
    /\ results_data' = load_all_results(results_dir, accuracy_files)
    /\ mivPc' = "loaded"
    /\ UNCHANGED <<accuracy_files, results_dir>>

(***************************************************************************)
(* tests/plots/small_samples/generate_accuracy_plots.py                    *)
(***************************************************************************)

\* str.capitalize() and str.upper() on the configured names
Capitalize(name) ==
    CASE name = "spectral" -> "Spectral"
      [] name = "maxfreq" -> "Maxfreq"
      [] name = "text" -> "Text"
      [] name = "binary" -> "Binary"
      [] name = "clean" -> "Clean"
      [] name = "white" -> "White"
      [] name = "brown" -> "Brown"
      [] name = "pink" -> "Pink"

Upper(name) ==
    CASE name = "gzip" -> "GZIP"
      [] name = "bzip2" -> "BZIP2"
      [] name = "lzma" -> "LZMA"
      [] name = "zstd" -> "ZSTD"

\* load_accuracy_data: one row per file that exists and loads
load_accuracy_data(files) ==
    { [Noise_Type |-> Capitalize(key[3]),
       Method |-> Capitalize(key[1]),
       Format |-> Capitalize(key[2]),
       Compressor |-> Upper(key[4]),
       Top1_Accuracy |-> files[key].top1_accuracy]
      : key \in {k \in Combinations : files[k].kind = "json"} }

\* plot_method_comparison draws, for 'Text' and for 'Binary', the unstacked
\* group means of the rows of that format
MethodComparisonEmpty(frame) ==
    \E format_type \in {"Text", "Binary"} :
        {r \in frame : r.Format = format_type} = {}

\* plot_format_comparison does the same for 'Spectral' and 'Maxfreq'
FormatComparisonEmpty(frame) ==
    \E method \in {"Spectral", "Maxfreq"} :
        {r \in frame : r.Method = method} = {}

\* plot_performance_overview, lines 250-254: summary_stats.loc[comp.upper()]
\* for every configured compressor raises KeyError for one without rows
OverviewKeyError(frame) ==
    \E i \in 1..Len(compressors) :
        {r \in frame : r.Compressor = Upper(compressors[i])} = {}

VARIABLES
    testPc,      \* "main" | the plot to draw next | "returned" | "raised"
    test_df,     \* the frame of load_accuracy_data
    test_pngs,   \* the plots saved
    test_exit    \* the value main returned (None before)

testVars == <<testPc, test_df, test_pngs, test_exit>>

TestIdle ==
    /\ testPc = "idle"
    /\ test_df = {}
    /\ test_pngs = {}
    /\ test_exit = None

TestInit ==
    /\ accuracy_files \in
          AccuracyTrees({AbsentFile, MetricsFile(90)},
                        {AbsentFile, UnreadableFile, MetricsFile(40)})
    /\ testPc = "main"
    /\ test_df = {}
    /\ test_pngs = {}
    /\ test_exit = None

\* main, lines 276-286
TestLoadAccuracyData ==
    /\ testPc = "main"
    /\ test_df' = load_accuracy_data(accuracy_files)
    /\ IF test_df' = {}
       THEN testPc' = "returned" /\ test_exit' = 1
       ELSE testPc' = "accuracy_heatmap" /\ test_exit' = test_exit
    /\ UNCHANGED <<accuracy_files, test_pngs>>

TestPlotAccuracyHeatmap ==
    /\ testPc = "accuracy_heatmap"
    /\ test_pngs' = test_pngs \cup {"accuracy_heatmap"}
    /\ testPc' = "method_comparison"
    /\ UNCHANGED <<accuracy_files, test_df, test_exit>>

\* DataFrame.plot(kind='bar') of an empty frame: the plotting library decides
\* whether it raises
TestPlotMethodComparison ==
    /\ testPc = "method_comparison"
    /\ \E library_raises \in BOOLEAN :
         IF MethodComparisonEmpty(test_df) /\ library_raises
         THEN testPc' = "raised" /\ test_pngs' = test_pngs
         ELSE /\ testPc' = "compressor_ranking"
              /\ test_pngs' = test_pngs \cup {"method_comparison"}
    /\ UNCHANGED <<accuracy_files, test_df, test_exit>>

TestPlotCompressorRanking ==
    /\ testPc = "compressor_ranking"
    /\ test_pngs' = test_pngs \cup {"compressor_ranking"}
    /\ testPc' = "format_comparison"
    /\ UNCHANGED <<accuracy_files, test_df, test_exit>>

TestPlotFormatComparison ==
    /\ testPc = "format_comparison"
    /\ \E library_raises \in BOOLEAN :
         IF FormatComparisonEmpty(test_df) /\ library_raises
         THEN testPc' = "raised" /\ test_pngs' = test_pngs
         ELSE /\ testPc' = "performance_overview"
              /\ test_pngs' = test_pngs \cup {"format_comparison"}
    /\ UNCHANGED <<accuracy_files, test_df, test_exit>>

\* plot_performance_overview and the return 0 of main
TestPlotPerformanceOverview ==
    /\ testPc = "performance_overview"
    /\ IF OverviewKeyError(test_df)
       THEN testPc' = "raised" /\ UNCHANGED <<test_pngs, test_exit>>
       ELSE /\ test_pngs' = test_pngs \cup {"performance_overview"}
            /\ testPc' = "returned"
            /\ test_exit' = 0
    /\ UNCHANGED <<accuracy_files, test_df>>

(***************************************************************************)
(* visualization/plot_nrc.py: track_outliers and plot_rank_stability       *)
(*                                                                         *)
(* A row of the results DataFrame keeps the columns the function reads.    *)
(* nrc is in hundredths; quantiles are kept exact as four times their      *)
(* value and the outlier bounds as eight times their value.                *)
(***************************************************************************)

MaxNrcRows == 5

InsertSorted(sorted, x) ==
    LET below == SelectSeq(sorted, LAMBDA y : y <= x)
        above == SelectSeq(sorted, LAMBDA y : y > x)
    IN below \o <<x>> \o above

\* sorted(values)
RECURSIVE Sorted(_)
Sorted(values) ==
    IF values = <<>> THEN <<>>
    ELSE InsertSorted(Sorted(Tail(values)), Head(values))

\* sorted(df[column].unique())
RECURSIVE SortedUnique(_)
SortedUnique(S) ==
    IF S = {} THEN <<>>
    ELSE <<MinOf(S)>> \o SortedUnique(S \ {MinOf(S)})

\* four times Series.quantile(quarters / 4) of pandas: linear interpolation
\* between the order statistics around position (n - 1) * quarters / 4
quantile(values, quarters) ==
    LET s == Sorted(values)
        pos == (Len(s) - 1) * quarters
        lo == pos \div 4
        rem == pos % 4
    IN IF rem = 0 THEN 4 * s[lo + 1]
       ELSE 4 * s[lo + 1] + (s[lo + 2] - s[lo + 1]) * rem

\* eight times lower_bound = q1 - 1.5 * iqr
lower_bound(q1, q3) == 2 * q1 - 3 * (q3 - q1)

\* eight times upper_bound = q3 + 1.5 * iqr
upper_bound(q1, q3) == 2 * q3 + 3 * (q3 - q1)

\* the row filter of line 242 with the comparisons made inclusive
IsOutlier_Inclusive(nrc, q1, q3) ==
    \/ 8 * nrc <= lower_bound(q1, q3)
    \/ 8 * nrc >= upper_bound(q1, q3)

\* (k_data['nrc'] < lower_bound) | (k_data['nrc'] > upper_bound)
IsOutlier(nrc, q1, q3) ==
    \/ 8 * nrc < lower_bound(q1, q3)
    \/ 8 * nrc > upper_bound(q1, q3)

OutlierRows == [k : {5, 7}, nrc : {30, 32, 90}]

\* df[df['k'] == k]
KData(frame, k) == SelectSeq(frame, LAMBDA row : row.k = k)

NrcValues(frame) == [i \in 1..Len(frame) |-> frame[i].nrc]

\* the entries one k group appends to outliers_data (median_nrc and
\* deviation are four times their value)
GroupOutliers(frame, k) ==
    LET k_data == KData(frame, k)
        q1 == quantile(NrcValues(k_data), 1)
        q3 == quantile(NrcValues(k_data), 3)
        median == quantile(NrcValues(k_data), 2)
        outliers == SelectSeq(k_data, LAMBDA row : IsOutlier(row.nrc, q1, q3))
    IN [i \in 1..Len(outliers) |->
          [k |-> k, nrc |-> outliers[i].nrc, median_nrc |-> median,
           deviation |-> 4 * outliers[i].nrc - median]]

\* the loop over sorted(df['k'].unique())
RECURSIVE CollectOutliers(_, _)
CollectOutliers(frame, ks) ==
    IF ks = <<>> THEN <<>>
    ELSE GroupOutliers(frame, Head(ks)) \o CollectOutliers(frame, Tail(ks))

OutlierFiles ==
    {"nrc_outliers.csv", "nrc_outliers_summary.png", "nrc_outliers_deviation.png",
     "outliers_summary.txt"}

VARIABLES outPc, out_df, outliers_data, out_files

outVars == <<outPc, out_df, outliers_data, out_files>>

OutIdle ==
    /\ outPc = "idle"
    /\ out_df = <<>>
    /\ outliers_data = <<>>
    /\ out_files = {}

OutInit ==
    /\ outPc = "called"
    /\ out_df \in SeqsUpTo(OutlierRows, MaxNrcRows)
    /\ outliers_data = <<>>
    /\ out_files = {}

\* track_outliers(df, output_dir)
TrackOutliers ==
    /\ outPc = "called"
    /\ outliers_data' =
          CollectOutliers(out_df, SortedUnique({out_df[i].k : i \in 1..Len(out_df)}))
    /\ out_files' = IF outliers_data' # <<>> THEN OutlierFiles ELSE {}
    /\ outPc' = "returned"
    /\ UNCHANGED out_df

MaxRankRows == 2

NaN == -2

TopOrganisms == 10

\* organism names, as the words name.split(' ') gives
OrganismNames == { <<"X">>, <<"Y", "virus", "1">> }

RankRows == [name : OrganismNames, k : {5, 7}, alpha : {1, 2}, rank : {1, 2, 6}]

\* the keys of Counter(top_ranks['name']), in order of first appearance
RECURSIVE FirstAppearance(_)
FirstAppearance(names) ==
    IF names = <<>> THEN <<>>
    ELSE LET rest == FirstAppearance(SubSeq(names, 1, Len(names) - 1))
             last == names[Len(names)]
         IN IF last \in Range(rest) THEN rest ELSE Append(rest, last)

TopRankNames(frame) ==
    LET top_ranks == SelectSeq(frame, LAMBDA row : row.rank <= 5)
    IN FirstAppearance([i \in 1..Len(top_ranks) |-> top_ranks[i].name])

\* the score of an organism with the sum taken over the rows of one k only
organism_score_PerK(frame, organism) ==
    LET first_k == (CHOOSE row \in Range(frame) : row.name = organism).k
        organism_data ==
            SelectSeq(frame, LAMBDA row : row.name = organism /\ row.k = first_k)
    IN SumSeq([i \in 1..Len(organism_data) |-> organism_data[i].rank])

\* organism_scores[organism] = df[df['name'] == organism]['rank'].sum()
organism_score(frame, organism) ==
    LET organism_data == SelectSeq(frame, LAMBDA row : row.name = organism)
    IN SumSeq([i \in 1..Len(organism_data) |-> organism_data[i].rank])

InsertByScore(frame, sorted, organism) ==
    LET before == SelectSeq(sorted, LAMBDA o :
                      organism_score(frame, o) <= organism_score(frame, organism))
        after == SelectSeq(sorted, LAMBDA o :
                      organism_score(frame, o) > organism_score(frame, organism))
    IN before \o <<organism>> \o after

\* sorted(organism_scores.items(), key=lambda x: x[1]): a stable sort
RECURSIVE sorted_organisms(_, _)
sorted_organisms(frame, organisms) ==
    IF organisms = <<>> THEN <<>>
    ELSE InsertByScore(frame,
                       sorted_organisms(frame, SubSeq(organisms, 1, Len(organisms) - 1)),
                       organisms[Len(organisms)])

common_top_organisms(frame) ==
    Take(sorted_organisms(frame, TopRankNames(frame)), TopOrganisms)

\* the row label: the first two words of a name of more than two words, else
\* the first word, with the score
RowLabel(frame, organism) ==
    [label |-> IF Len(organism) > 2 THEN SubSeq(organism, 1, 2)
               ELSE SubSeq(organism, 1, 1),
     score |-> organism_score(frame, organism)]

\* the columns of the matrix: sorted k, then sorted alpha
MatrixColumns(frame) ==
    LET ks == SortedUnique({frame[i].k : i \in 1..Len(frame)})
        alphas == SortedUnique({frame[i].alpha : i \in 1..Len(frame)})
    IN [c \in 1..(Len(ks) * Len(alphas)) |->
          [k |-> ks[((c - 1) \div Len(alphas)) + 1],
           alpha |-> alphas[((c - 1) % Len(alphas)) + 1]]]

\* rank_matrix[i, col_idx]: subset.iloc[0]['rank'], or NaN for an empty subset
MatrixCell(frame, organism, column) ==
    LET subset == SelectSeq(frame, LAMBDA row :
                      /\ row.name = organism
                      /\ row.k = column.k
                      /\ row.alpha = column.alpha)
    IN IF subset # <<>> THEN subset[1].rank ELSE NaN

VARIABLES rankPc, rank_df, row_labels, rank_matrix, rank_files

rankVars == <<rankPc, rank_df, row_labels, rank_matrix, rank_files>>

RankIdle ==
    /\ rankPc = "idle"
    /\ rank_df = <<>>
    /\ row_labels = <<>>
    /\ rank_matrix = <<>>
    /\ rank_files = {}

RankInit ==
    /\ rankPc = "called"
    /\ rank_df \in SeqsUpTo(RankRows, MaxRankRows)
    /\ row_labels = <<>>
    /\ rank_matrix = <<>>
    /\ rank_files = {}

\* plot_rank_stability(df, output_dir); what sns.heatmap does with a matrix
\* of no rows is left open
PlotRankStability ==
    /\ rankPc = "called"
    /\ LET organisms == common_top_organisms(rank_df)
           columns == MatrixColumns(rank_df)
       IN /\ row_labels' = [i \in 1..Len(organisms) |-> RowLabel(rank_df, organisms[i])]
          /\ rank_matrix' = [i \in 1..Len(organisms) |->
                               [c \in 1..Len(columns) |->
                                  MatrixCell(rank_df, organisms[i], columns[c])]]
          /\ \E library_raises \in BOOLEAN :
                IF organisms = <<>> /\ library_raises
                THEN rankPc' = "raised" /\ rank_files' = {}
                ELSE rankPc' = "saved" /\ rank_files' = {"rank_stability.png"}
    /\ UNCHANGED rank_df

(***************************************************************************)
(* visualization/visualize_results.py: main                                *)
(*                                                                         *)
(* A path is the sequence of its components, relative to the working       *)
(* directory.  The file system is the set of its files, each a record      *)
(* [path, content]; a directory exists when a file lies below it.  The     *)
(* content of a file keeps what distinguishes it: its kind, the timestamp  *)
(* written in it and the input path written in it.                         *)
(***************************************************************************)

MaxRuns == 2

IsPrefix(p, q) == Len(p) <= Len(q) /\ SubSeq(q, 1, Len(p)) = p

InputFolders ==
    { <<"..", "build", "results", "latest">>, <<"results", "latest">>,
      <<"viz", "latest">>, <<"viz", "latest", "run">> }

OutputDirs == { <<"visualization_results">>, <<"viz">>, <<"results">> }

\* what datetime.datetime.now().strftime("%Y%m%d_%H%M%S") can give
Clock == { "20250101_120000", "20250101_120001" }

FileContent(kind, stamp, source) == [kind |-> kind, stamp |-> stamp, source |-> source]

\* info.txt with a 'Date and Time:' line, and without one
InfoFiles == { FileContent("info", "2024-12-31", <<>>), FileContent("info", "", <<>>) }

ResultsJson == FileContent("results", "", <<>>)

\* the files a test results folder can hold
InputTrees(folder) ==
    { {[path |-> folder \o <<"top_organisms_results.json">>, content |-> ResultsJson]}
         \cup info
      : info \in { {} } \cup { {[path |-> folder \o <<"info.txt">>, content |-> i]}
                                : i \in InfoFiles } }
    \cup
    { {[path |-> folder \o <<"info.txt">>, content |-> i]} : i \in InfoFiles }

\* os.path.exists(path)
Exists(files, path) == \E f \in files : IsPrefix(path, f.path)

\* get_timestamp_from_info(input_folder); now is the reading of the clock
get_timestamp_from_info(files, input_folder, now) ==
    LET info == {f \in files : f.path = input_folder \o <<"info.txt">>}
    IN IF \E f \in info : f.content.stamp # ""
       THEN (CHOOSE f \in info : TRUE).content.stamp
       ELSE now

rmtree_Keep(files, dir) == files

\* shutil.rmtree(dir)
rmtree(files, dir) == {f \in files : ~IsPrefix(dir, f.path)}

possible_paths ==
    << <<"results", "latest", "top_organisms_results.json">>,
       <<"..", "results", "latest", "top_organisms_results.json">>,
       <<"results", "top_organisms_results.json">> >>

\* lines 55-69: the path of the results file main settles on
top_organisms_results_filepath(files, input_folder) ==
    LET given == input_folder \o <<"top_organisms_results.json">>
        found == SelectSeq(possible_paths, LAMBDA p : Exists(files, p))
    IN IF Exists(files, given) \/ found = <<>> THEN given ELSE found[1]

\* the figures of the plot functions called in the loop of lines 83-100
PlotNames == { "top_organism_nrc_heatmap.png", "rank_stability.png", "nrc_boxplot_by_k.png" }

\* the files the loop of lines 83-100 writes into one output directory
OutputFiles(output_dir, filepath, timestamp) ==
    { [path |-> output_dir \o <<n>>, content |-> FileContent("png", "", <<>>)]
        : n \in PlotNames }
    \cup { [path |-> output_dir \o <<"summary.txt">>,
            content |-> FileContent("summary", timestamp, filepath)] }

\* chunk_analysis.json, which the test program writes into the results folder
\* when it analyses chunks
ChunkJson == FileContent("chunk", "", <<>>)

\* lines 93-96: plot_chunk_analysis, called when chunk_analysis.json exists
ChunkFiles(files, input_folder, output_dir) ==
    IF Exists(files, input_folder \o <<"chunk_analysis.json">>)
    THEN { [path |-> output_dir \o <<n>>, content |-> FileContent("png", "", <<>>)]
             : n \in {"chunk_analysis_visualization.png",
                      "chunk_analysis_visualization_hires.png"} }
    ELSE {}

\* open(path, 'w') and savefig(path): the new files replace those of the same path
WriteFiles(files, written) ==
    {f \in files : \A w \in written : w.path # f.path} \cup written

VARIABLES
    vrPc,          \* "idle" | "ready" | "returned" | "no_input"
    vr_input,      \* --input
    vr_output,     \* --output
    vr_files,      \* the file system
    vr_runs,       \* per finished run: the input files it started with, the files it
                   \* wrote and its timestamp
    vr_input0      \* the files of the input folder before the first run

vrVars == <<vrPc, vr_input, vr_output, vr_files, vr_runs, vr_input0>>

VrIdle ==
    /\ vrPc = "idle"
    /\ vr_input = <<>>
    /\ vr_output = <<>>
    /\ vr_files = {}
    /\ vr_runs = <<>>
    /\ vr_input0 = {}

VrInit ==
    /\ vrPc = "ready"
    /\ vr_input \in InputFolders
    /\ vr_output \in OutputDirs
    /\ vr_files \in InputTrees(vr_input)
    /\ vr_runs = <<>>
    /\ vr_input0 = vr_files

\* one run of main
VisualizeMain ==
    /\ vrPc # "idle"
    /\ Len(vr_runs) < MaxRuns
    /\ \E now \in Clock :
         LET timestamp == get_timestamp_from_info(vr_files, vr_input, now)
             timestamp_dir == vr_output \o <<timestamp>>
             latest_dir == vr_output \o <<"latest">>
             kept == IF Exists(vr_files, latest_dir) THEN rmtree(vr_files, latest_dir)
                     ELSE vr_files
             filepath == top_organisms_results_filepath(kept, vr_input)
             written == IF Exists(kept, filepath)
                        THEN OutputFiles(timestamp_dir, filepath, timestamp)
                             \cup ChunkFiles(kept, vr_input, timestamp_dir)
                             \cup OutputFiles(latest_dir, filepath, timestamp)
                             \cup ChunkFiles(kept, vr_input, latest_dir)
                        ELSE {}
         IN /\ vr_files' = WriteFiles(kept, written)
            /\ vrPc' = IF Exists(kept, filepath) THEN "returned" ELSE "no_input"
            /\ vr_runs' = Append(vr_runs,
                                 [input |-> {f \in vr_files : IsPrefix(vr_input, f.path)},
                                  written |-> written,
                                  timestamp |-> timestamp])
    /\ UNCHANGED <<vr_input, vr_output, vr_input0>>

\* between two runs of main the test program runs again and leaves the
\* results folder with or without chunk_analysis.json
NewChunkAnalysis ==
    /\ vrPc # "idle"
    /\ Len(vr_runs) < MaxRuns
    /\ LET chunk == [path |-> vr_input \o <<"chunk_analysis.json">>, content |-> ChunkJson]
       IN vr_files' = IF chunk \in vr_files THEN vr_files \ {chunk}
                      ELSE vr_files \cup {chunk}
    /\ vrPc' = "ready"
    /\ UNCHANGED <<vr_input, vr_output, vr_runs, vr_input0>>

(***************************************************************************)
(* scripts/evaluate_parameters.py: ParameterEvaluator.evaluate_parameters  *)
(*                                                                         *)
(* The two subprocesses (./apps/extract_features and batch_identify.sh)    *)
(* are outside the script: their outcomes are chosen freely.  A feature    *)
(* directory is "absent", "complete" (written by an extraction that        *)
(* succeeded) or "partial" (left behind by one that failed or timed out).  *)
(* The output directory, and with it the db_features directories, outlives *)
(* a run of the script.                                                    *)
(***************************************************************************)

MaxParameterSets == 2

MaxEvalRuns == 2

\* two of the parameter sets of the --quick evaluation
QuickParameterSets ==
    { [method |-> "maxfreq", numFrequencies |-> 4, numBins |-> 32,
       frameSize |-> 1024, hopSize |-> 512],
      [method |-> "spectral", numFrequencies |-> 4, numBins |-> 64,
       frameSize |-> 1024, hopSize |-> 512] }

\* create_config: config_name = f"{method}_f{..}_b{..}_fs{..}_hs{..}"
config_name_of(params) ==
    <<params.method, "_f", params.numFrequencies, "_b", params.numBins,
      "_fs", params.frameSize, "_hs", params.hopSize>>

ConfigNames == {config_name_of(p) : p \in QuickParameterSets}

CompressorLists == { <<"gzip">>, <<"gzip", "bzip2">> }

\* what run_identification returns: None, or the metrics of the accuracy file
IdentificationOutcomes == { None, 50 }

\* the outcomes of extract_features: (returned value, directory left behind)
ExtractionOutcomes ==
    { [ok |-> TRUE, dir |-> "complete"],
      [ok |-> FALSE, dir |-> "absent"],
      [ok |-> FALSE, dir |-> "partial"] }

\* lines 142-175 with the 'if metrics:' test left out
TestCompressors_NoTest(params, compressor_list, metrics) ==
    [i \in 1..Len(compressor_list) |->
        [config_name |-> config_name_of(params), method |-> params.method,
         compressor |-> compressor_list[i], top1_accuracy |-> metrics[i]]]

\* lines 142-175: the entries the compressor loop appends to results for one
\* parameter set, metrics[i] being what run_identification returned for the
\* i-th compressor
TestCompressors(params, compressor_list, metrics) ==
    LET tested == [i \in 1..Len(compressor_list) |->
                     [config_name |-> config_name_of(params), method |-> params.method,
                      compressor |-> compressor_list[i], top1_accuracy |-> metrics[i]]]
    IN SelectSeq(tested, LAMBDA r : r.top1_accuracy # None)

VARIABLES
    pePc,              \* "idle" | "ready" | "loop" | "returned"
    parameter_sets,    \* the argument of evaluate_parameters
    pe_compressors,    \* the argument compressors
    pe_next,           \* index of the parameter set the loop visits next
    results,
    total_configs,
    current_config,
    db_feat_dirs,      \* config name -> state of output_dir/db_features_{name}
    pe_log,            \* history: the parameter sets visited in this run and how each ended
    pe_visits,         \* history: the calls of run_identification of this run
    pe_db_extractions, \* history: config name -> successful database extractions, over all runs
    pe_run             \* runs started

peVars == <<pePc, parameter_sets, pe_compressors, pe_next, results, total_configs,
            current_config, db_feat_dirs, pe_log, pe_visits, pe_db_extractions, pe_run>>

PeIdle ==
    /\ pePc = "idle"
    /\ parameter_sets = <<>>
    /\ pe_compressors = <<>>
    /\ pe_next = 0
    /\ results = <<>>
    /\ total_configs = 0
    /\ current_config = 0
    /\ db_feat_dirs = [n \in ConfigNames |-> "absent"]
    /\ pe_log = <<>>
    /\ pe_visits = <<>>
    /\ pe_db_extractions = [n \in ConfigNames |-> 0]
    /\ pe_run = 0

PeInit ==
    /\ pePc = "ready"
    /\ parameter_sets = <<>>
    /\ pe_compressors = <<>>
    /\ pe_next = 0
    /\ results = <<>>
    /\ total_configs = 0
    /\ current_config = 0
    /\ db_feat_dirs = [n \in ConfigNames |-> "absent"]
    /\ pe_log = <<>>
    /\ pe_visits = <<>>
    /\ pe_db_extractions = [n \in ConfigNames |-> 0]
    /\ pe_run = 0

\* evaluate_parameters, lines 102-108: a run starts; the output directory is
\* as the runs before left it
EvaluateParametersStart ==
    /\ pePc \in {"ready", "returned"}
    /\ pe_run < MaxEvalRuns
    /\ parameter_sets' \in SeqsUpTo(QuickParameterSets, MaxParameterSets)
    /\ pe_compressors' \in CompressorLists
    /\ total_configs' = Len(parameter_sets') * Len(pe_compressors')
    /\ current_config' = 0
    /\ results' = <<>>
    /\ pe_next' = 1
    /\ pe_log' = <<>>
    /\ pe_visits' = <<>>
    /\ pe_run' = pe_run + 1
    /\ pePc' = "loop"
    /\ UNCHANGED <<db_feat_dirs, pe_db_extractions>>

\* evaluate_parameters, lines 110-175: one iteration of the loop over
\* parameter_sets
EvaluateParameterSet ==
    /\ pePc = "loop"
    /\ pe_next <= Len(parameter_sets)
    /\ LET params == parameter_sets[pe_next]
           name == config_name_of(params)
       IN \E query \in ExtractionOutcomes, db \in ExtractionOutcomes,
             metrics \in [1..Len(pe_compressors) -> IdentificationOutcomes] :
            IF ~query.ok
            THEN /\ pe_log' = Append(pe_log, [params |-> params, ended |-> "query_failed"])
                 /\ UNCHANGED <<results, current_config, db_feat_dirs, pe_visits,
                                pe_db_extractions>>
            ELSE IF db_feat_dirs[name] = "absent" /\ ~db.ok
            THEN /\ pe_log' = Append(pe_log, [params |-> params, ended |-> "db_failed"])
                 /\ db_feat_dirs' = [db_feat_dirs EXCEPT ![name] = db.dir]
                 /\ UNCHANGED <<results, current_config, pe_visits, pe_db_extractions>>
            ELSE /\ db_feat_dirs' =
                       IF db_feat_dirs[name] = "absent"
                       THEN [db_feat_dirs EXCEPT ![name] = db.dir]
                       ELSE db_feat_dirs
                 /\ pe_db_extractions' =
                       IF db_feat_dirs[name] = "absent"
                       THEN [pe_db_extractions EXCEPT ![name] = @ + 1]
                       ELSE pe_db_extractions
                 /\ results' = results \o TestCompressors(params, pe_compressors, metrics)
                 /\ current_config' = current_config + Len(pe_compressors)
                 /\ pe_visits' = pe_visits \o
                       [i \in 1..Len(pe_compressors) |->
                           [set |-> pe_next,
                            compressor |-> pe_compressors[i], metrics |-> metrics[i],
                            db_features |-> db_feat_dirs'[name]]]
                 /\ pe_log' = Append(pe_log, [params |-> params, ended |-> "tested"])
    /\ pe_next' = pe_next + 1
    /\ UNCHANGED <<pePc, parameter_sets, pe_compressors, total_configs, pe_run>>

\* evaluate_parameters, line 177
EvaluateParametersReturn ==
    /\ pePc = "loop"
    /\ pe_next > Len(parameter_sets)
    /\ pePc' = "returned"
    /\ UNCHANGED <<parameter_sets, pe_compressors, pe_next, results, total_configs,
                   current_config, db_feat_dirs, pe_log, pe_visits, pe_db_extractions,
                   pe_run>>

(***************************************************************************)
(* project1/generate_plots/plot_complextity_profile.py                     *)
(*                                                                         *)
(* A sequence is the sequence of its symbols; what the user types is the   *)
(* sequence of its characters.  The local variable k of main is a record:  *)
(* it is unbound until the first int(k_value) succeeds.                    *)
(***************************************************************************)

MaxSeqLen == 3

MaxEntries == 2

Symbols == {"A", "C"}

\* sequence[a:b] of Python for 0 <= a <= b, a and b counted from 0
Slice(sequence, a, b) ==
    SubSeq(sequence, a + 1, IF b < Len(sequence) THEN b ELSE Len(sequence))

\* the substrings the Counter of line 22 counts, one per i in
\* range(len(sequence) - k + 1)
Windows(sequence, k) ==
    [i \in 1..(Len(sequence) - k + 1) |-> Slice(sequence, i - 1, i + k)]

\* sub[:-1]
ButLast(sub) == SubSeq(sub, 1, Len(sub) - 1)

\* compute_complexity_profile_matrix for the windows of line 22: the row of
\* every context sub[:-1], with one cell per symbol of unique_chars and Sum
ProfileMatrix(windows) ==
    LET subs == Range(windows)
        unique_chars == UNION {Range(sub) : sub \in subs}
        Count(sub) == Cardinality({i \in 1..Len(windows) : windows[i] = sub})
        Cell(context, c) ==
            IF Append(context, c) \in subs THEN Count(Append(context, c)) ELSE 0
        RECURSIVE RowSum(_, _)
        RowSum(context, chars) ==
            IF chars = {} THEN 0
            ELSE LET c == CHOOSE c \in chars : TRUE
                 IN Cell(context, c) + RowSum(context, chars \ {c})
    IN [context \in {ButLast(sub) : sub \in subs} |->
          [cells |-> [c \in unique_chars |-> Cell(context, c)],
           Sum |-> RowSum(context, unique_chars)]]

\* compute_complexity_profile_matrix(sequence, k) for k >= 0
compute_complexity_profile_matrix(sequence, k) ==
    IF k = 0 \/ k > Len(sequence)
    THEN [kind |-> "None", rows |-> <<>>]
    ELSE [kind |-> "matrix", rows |-> ProfileMatrix(Windows(sequence, k))]

\* what the user can type for k
KEntries == { <<"0">>, <<"1">>, <<"2">>, <<"4">>, <<"-", "1">>, <<"x">>, <<>> }

DigitValue(ch) ==
    CASE ch = "0" -> 0 [] ch = "1" -> 1 [] ch = "2" -> 2 [] ch = "4" -> 4 [] OTHER -> None

\* int(k_value) for an entry of at most one digit: the value, or ValueError
ParseInt(k_value) ==
    IF Len(k_value) = 1 /\ DigitValue(k_value[1]) # None
    THEN [ok |-> TRUE, value |-> DigitValue(k_value[1])]
    ELSE IF Len(k_value) = 2 /\ k_value[1] = "-" /\ DigitValue(k_value[2]) # None
    THEN [ok |-> TRUE, value |-> 0 - DigitValue(k_value[2])]
    ELSE [ok |-> FALSE, value |-> 0]

\* the names the user can type: a file of ../sequences, and one that is not there
SequenceNames == {"seq", "nofile"}

Unbound == [bound |-> FALSE, value |-> 0]

NoCall == [called |-> FALSE, k |-> 0, matrix |-> [kind |-> "None", rows |-> <<>>],
           plot |-> FALSE]

VARIABLES
    cpPc,         \* "idle" | "prompt" | "quit" | "raised"
    cp_sequence,  \* the content of ../sequences/seq.txt
    cp_k,         \* the local variable k of main
    cp_entries,   \* iterations of the loop so far
    cp_k_value,   \* history: the k typed in the last iteration
    cp_call,      \* history: the call of process_complexity_profile of the last iteration
    cp_plots      \* the k of the plots written for seq

cpVars == <<cpPc, cp_sequence, cp_k, cp_entries, cp_k_value, cp_call, cp_plots>>

CpIdle ==
    /\ cpPc = "idle"
    /\ cp_sequence = <<>>
    /\ cp_k = Unbound
    /\ cp_entries = 0
    /\ cp_k_value = <<>>
    /\ cp_call = NoCall
    /\ cp_plots = {}

CpInit ==
    /\ cpPc = "prompt"
    /\ cp_sequence \in SeqsUpTo(Symbols, MaxSeqLen)
    /\ cp_k = Unbound
    /\ cp_entries = 0
    /\ cp_k_value = <<>>
    /\ cp_call = NoCall
    /\ cp_plots = {}

\* main, lines 63-65: Enter at the prompt for the filename
MainQuit ==
    /\ cpPc = "prompt"
    /\ cpPc' = "quit"
    /\ cp_call' = NoCall
    /\ UNCHANGED <<cp_sequence, cp_k, cp_entries, cp_k_value, cp_plots>>

\* main, lines 62-79: one iteration of the loop with a filename and a k, the
\* call of process_complexity_profile (lines 47-55) included.  int() binds k
\* before the test k < 0; after a ValueError the loop body goes on to line 78
\* with k as it was.  A call with k unbound raises UnboundLocalError; a call
\* with k = -1 raises IndexError at line 27 (sub[-1] of an empty string);
\* plot_complexity_profile_matrix passes a None matrix to sns.heatmap, and
\* whether that raises or a figure is saved is left open.
MainIteration ==
    /\ cpPc = "prompt"
    /\ cp_entries < MaxEntries
    /\ cp_entries' = cp_entries + 1
    /\ \E sequence_name \in SequenceNames, k_value \in KEntries, heatmap_raises \in BOOLEAN :
         LET parsed == ParseInt(k_value)
             k == IF parsed.ok THEN [bound |-> TRUE, value |-> parsed.value] ELSE cp_k
             matrix == IF k.bound /\ k.value >= 0
                       THEN compute_complexity_profile_matrix(cp_sequence, k.value)
                       ELSE [kind |-> "None", rows |-> <<>>]
         IN /\ cp_k_value' = k_value
            /\ cp_k' = k
            /\ IF parsed.ok /\ parsed.value < 0
               THEN /\ cpPc' = "prompt"
                    /\ cp_call' = NoCall
                    /\ UNCHANGED cp_plots
               ELSE IF ~k.bound
               THEN /\ cpPc' = "raised"
                    /\ cp_call' = NoCall
                    /\ UNCHANGED cp_plots
               ELSE IF sequence_name = "nofile"
               THEN /\ cpPc' = "prompt"
                    /\ cp_call' = [called |-> TRUE, k |-> k.value,
                                   matrix |-> [kind |-> "None", rows |-> <<>>],
                                   plot |-> FALSE]
                    /\ UNCHANGED cp_plots
               ELSE IF k.value < 0 \/ (matrix.kind = "None" /\ heatmap_raises)
               THEN /\ cpPc' = "raised"
                    /\ cp_call' = [called |-> TRUE, k |-> k.value, matrix |-> matrix,
                                   plot |-> FALSE]
                    /\ UNCHANGED cp_plots
               ELSE /\ cpPc' = "prompt"
                    /\ cp_call' = [called |-> TRUE, k |-> k.value, matrix |-> matrix,
                                   plot |-> TRUE]
                    /\ cp_plots' = cp_plots \cup {k.value}
    /\ UNCHANGED cp_sequence

(***************************************************************************)
(* scripts/generate_optimal_configs.py: generate_optimal_configs           *)
(*                                                                         *)
(* The rows of the results file are those evaluate_parameters writes.  The *)
(* output directory may exist already (mkdir(exist_ok=True)) and hold the  *)
(* files of an earlier run.  A Python set of strings is iterated in an     *)
(* order that differs from one interpreter process to the next, so the     *)
(* order of `methods` is chosen freely.                                    *)
(***************************************************************************)

MaxResults == 2

\* generate_parameter_sets: some of the grid of evaluate_parameters.py
OcParameterSets ==
    { [method |-> "maxfreq", numFrequencies |-> f, numBins |-> 32,
       frameSize |-> fs, hopSize |-> fs \div 2] : f \in {4, 6}, fs \in {1024, 2048} }
    \cup
    { [method |-> "spectral", numFrequencies |-> 4, numBins |-> b,
       frameSize |-> fs, hopSize |-> fs \div 2] : b \in {32, 64}, fs \in {1024, 2048} }

\* a row of data['results']
ResultRows ==
    { [method |-> p.method, numFrequencies |-> p.numFrequencies,
       numBins |-> p.numBins, frameSize |-> p.frameSize, hopSize |-> p.hopSize,
       compressor |-> c, top1_accuracy |-> a] :
      p \in OcParameterSets, c \in {"gzip", "bzip2"}, a \in {40, 50} }

\* max(rows, key=lambda x: x['top1_accuracy']): the first row of the greatest key
max_by_top1_accuracy(rows) ==
    rows[CHOOSE i \in 1..Len(rows) :
            /\ \A j \in 1..Len(rows) : rows[j].top1_accuracy <= rows[i].top1_accuracy
            /\ \A j \in 1..(i - 1) : rows[j].top1_accuracy < rows[i].top1_accuracy]

\* the orders in which a set can be iterated
Orderings(S) == {s \in [1..Cardinality(S) -> S] : Range(s) = S}

best_by_method(rows, method) ==
    max_by_top1_accuracy(SelectSeq(rows, LAMBDA r : r.method = method))

fast_configs_NoMethod(rows) ==
    SelectSeq(rows, LAMBDA r :
        /\ r.frameSize <= 1024
        /\ \/ r.numFrequencies <= 4
           \/ r.numBins <= 32)

fast_configs(rows) ==
    SelectSeq(rows, LAMBDA r :
        /\ r.frameSize <= 1024
        /\ \/ r.method = "maxfreq" /\ r.numFrequencies <= 4
           \/ r.method = "spectral" /\ r.numBins <= 32)

accurate_configs(rows) ==
    SelectSeq(rows, LAMBDA r :
        /\ r.frameSize >= 1024
        /\ \/ r.method = "maxfreq" /\ r.numFrequencies >= 6
           \/ r.method = "spectral" /\ r.numBins >= 64)

\* output_dir / f"{config_name}.json"
config_file(config_name) == config_name \o ".json"

\* configs_generated, as the names in the order they are appended
ConfigsGenerated(rows, method_order) ==
    <<"optimal_overall">>
    \o [i \in 1..Len(method_order) |-> "optimal_" \o method_order[i]]
    \o (IF fast_configs(rows) # <<>> THEN <<"optimal_fast">> ELSE <<>>)
    \o (IF accurate_configs(rows) # <<>> THEN <<"optimal_accurate">> ELSE <<>>)

\* the files the 'Usage Recommendations' of the summary tell the user to use
UsageRecommendations ==
    {"optimal_overall.json", "optimal_fast.json", "optimal_accurate.json"}

\* optimization_summary.txt: its list of generated configurations, its method
\* comparison and its usage recommendations
Summary(rows, method_order) ==
    [generated |-> [i \in 1..Len(ConfigsGenerated(rows, method_order)) |->
                       config_file(ConfigsGenerated(rows, method_order)[i])],
     best_overall |-> max_by_top1_accuracy(rows),
     method_comparison |-> [i \in 1..Len(method_order) |->
                       <<method_order[i],
                         best_by_method(rows, method_order[i]).top1_accuracy>>],
     usage |-> UsageRecommendations]

\* config = {"method": ..., "numFrequencies": ..., ...} of a chosen result
config_of(r) ==
    [method |-> r.method, numFrequencies |-> r.numFrequencies,
     numBins |-> r.numBins, frameSize |-> r.frameSize, hopSize |-> r.hopSize]

\* the result each configuration is taken from, by configuration name
BestConfig(rows, config_name) ==
    IF config_name = "optimal_overall" THEN max_by_top1_accuracy(rows)
    ELSE IF config_name = "optimal_fast" THEN max_by_top1_accuracy(fast_configs(rows))
    ELSE IF config_name = "optimal_accurate"
         THEN max_by_top1_accuracy(accurate_configs(rows))
    ELSE IF config_name = "optimal_maxfreq" THEN best_by_method(rows, "maxfreq")
    ELSE best_by_method(rows, "spectral")

\* json.dump(config, f) into each config_file, with the 'accuracy' that
\* configs_generated records for it
Written(rows, method_order) ==
    [f \in {config_file(n) : n \in Range(ConfigsGenerated(rows, method_order))} |->
        LET n == CHOOSE n \in Range(ConfigsGenerated(rows, method_order)) :
                     config_file(n) = f
        IN  [config |-> config_of(BestConfig(rows, n)),
             accuracy |-> BestConfig(rows, n).top1_accuracy]]

NoSummary == [generated |-> <<>>, best_overall |-> None,
              method_comparison |-> <<>>, usage |-> {}]

VARIABLES
    ocPc,               \* "main" | "returned" | "no_results"
    oc_results,         \* data['results']
    oc_files,           \* names of the files in output_dir
    configs_generated,  \* the names of the list generate_optimal_configs returns
    oc_summary,         \* what this run wrote to optimization_summary.txt
    oc_written          \* what this run wrote to each configuration file

ocVars == <<ocPc, oc_results, oc_files, configs_generated, oc_summary, oc_written>>

OcIdle ==
    /\ ocPc = "main"
    /\ oc_results = <<>>
    /\ oc_files = {}
    /\ configs_generated = <<>>
    /\ oc_summary = NoSummary
    /\ oc_written = <<>>

OcInit ==
    /\ ocPc = "main"
    /\ oc_results \in SeqsUpTo(ResultRows, MaxResults)
    /\ oc_files \in {{}, {"optimal_fast.json"}, {"optimal_accurate.json"}}
    /\ configs_generated = <<>>
    /\ oc_summary = NoSummary
    /\ oc_written = <<>>

\* generate_optimal_configs, when data['results'] is empty
GenerateOptimalConfigsNoResults ==
    /\ ocPc = "main"
    /\ oc_results = <<>>
    /\ ocPc' = "no_results"
    /\ UNCHANGED <<oc_results, oc_files, configs_generated, oc_summary, oc_written>>

\* generate_optimal_configs, from the first configuration to the return
GenerateOptimalConfigs ==
    /\ ocPc = "main"
    /\ oc_results # <<>>
    /\ \E method_order \in Orderings({oc_results[i].method : i \in 1..Len(oc_results)}) :
         /\ configs_generated' = ConfigsGenerated(oc_results, method_order)
         /\ oc_summary' = Summary(oc_results, method_order)
         /\ oc_written' = Written(oc_results, method_order)
         /\ oc_files' = oc_files
                \cup {config_file(n) : n \in Range(ConfigsGenerated(oc_results, method_order))}
                \cup {"optimization_summary.txt"}
    /\ ocPc' = "returned"
    /\ UNCHANGED oc_results

(***************************************************************************)
(* The best configuration, as three scripts choose it from the results of  *)
(* one parameter_evaluation_results.json:                                  *)
(*   scripts/evaluate_parameters.py   ParameterEvaluator.generate_summary  *)
(*   scripts/generate_optimal_configs.py  generate_optimal_configs         *)
(*   scripts/visualize_parameters.py  generate_detailed_report             *)
(* The three run in any order on oc_results.                               *)
(***************************************************************************)

\* sorted(results, key=lambda x: x["top1_accuracy"], reverse=True): a stable
\* sort, results of equal accuracy keep their order
RECURSIVE InsertByAccuracy(_, _)
InsertByAccuracy(sorted, row) ==
    IF sorted = <<>> THEN <<row>>
    ELSE IF Head(sorted).top1_accuracy >= row.top1_accuracy
         THEN <<Head(sorted)>> \o InsertByAccuracy(Tail(sorted), row)
         ELSE <<row>> \o sorted

RECURSIVE sorted_results(_)
sorted_results(rows) ==
    IF rows = <<>> THEN <<>>
    ELSE InsertByAccuracy(sorted_results(SubSeq(rows, 1, Len(rows) - 1)),
                          rows[Len(rows)])

idxmax_Last(rows) ==
    CHOOSE i \in 1..Len(rows) :
        /\ \A j \in 1..Len(rows) : rows[j].top1_accuracy <= rows[i].top1_accuracy
        /\ \A j \in (i + 1)..Len(rows) : rows[j].top1_accuracy # rows[i].top1_accuracy

\* df['top1_accuracy'].idxmax(): the label of the first row of the maximum
\* (the labels of pd.DataFrame(results) are the positions in the list)
idxmax(rows) ==
    CHOOSE i \in 1..Len(rows) :
        /\ \A j \in 1..Len(rows) : rows[j].top1_accuracy <= rows[i].top1_accuracy
        /\ \A j \in 1..(i - 1) : rows[j].top1_accuracy # rows[i].top1_accuracy

NotRun == [status |-> "not_run", best |-> None]

VARIABLES
    summary_best,   \* generate_summary: `best`, once it has run
    report_best     \* generate_detailed_report: `best_overall`, once it has run

bestVars == <<summary_best, report_best>>

BestIdle ==
    /\ summary_best = NotRun
    /\ report_best = NotRun

BestInit ==
    /\ ocPc = "main"
    /\ oc_results \in SeqsUpTo(ResultRows, MaxResults)
    /\ oc_files = {}
    /\ configs_generated = <<>>
    /\ oc_summary = NoSummary
    /\ oc_written = <<>>
    /\ BestIdle

\* ParameterEvaluator.generate_summary(results)
GenerateSummary ==
    /\ summary_best = NotRun
    /\ summary_best' =
          IF oc_results = <<>> THEN [status |-> "no_results", best |-> None]
          ELSE [status |-> "printed", best |-> sorted_results(oc_results)[1]]
    /\ UNCHANGED report_best

\* generate_detailed_report(results, output_dir); with no results the frame
\* has no column and df['method'] raises KeyError
GenerateDetailedReport ==
    /\ report_best = NotRun
    /\ report_best' =
          IF oc_results = <<>> THEN [status |-> "raised", best |-> None]
          ELSE [status |-> "written", best |-> oc_results[idxmax(oc_results)]]
    /\ UNCHANGED summary_best

(***************************************************************************)
(* scripts/generate_plots_genres.py: GenreAnalyzer                         *)
(*                                                                         *)
(* The analyzer reads the accuracy file calculate_accuracy_metrics wrote   *)
(* for a configuration: `summary` above.  The genre of a query comes from  *)
(* its file name and the genre file; it is chosen freely per query.        *)
(***************************************************************************)

Genres == {"Rock", "Unknown"}

\* lines 183-185: the three flags analyze_genre_accuracy derives from one
\* entry of detailed_results
GenreFlags(result) ==
    [top1 |-> IF result.correct THEN 1 ELSE 0,
     top5 |-> IF result.found_at_rank # None /\ result.found_at_rank <= 5
              THEN 1 ELSE 0,
     top10 |-> IF result.found_at_rank # None /\ result.found_at_rank <= 10
               THEN 1 ELSE 0]

\* genre_results[genre]: the flags of the queries of the genre, in the order
\* of detailed_results
FlagsOfGenre(entries, genre_of, genre) ==
    LET flags == [i \in 1..Len(entries) |->
                     [genre |-> genre_of[i], flags |-> GenreFlags(entries[i])]]
        mine == SelectSeq(flags, LAMBDA e : e.genre = genre)
    IN  [top1_correct |-> [i \in 1..Len(mine) |-> mine[i].flags.top1],
         top5_correct |-> [i \in 1..Len(mine) |-> mine[i].flags.top5],
         top10_correct |-> [i \in 1..Len(mine) |-> mine[i].flags.top10]]

NoFlags == [top1_correct |-> <<>>, top5_correct |-> <<>>, top10_correct |-> <<>>]

\* lines 744-748: the points of the scatter plot, np.mean(...) * 100 kept exact
ScatterPoints(by_genre) ==
    { [genre |-> g,
       top1_acc |-> Percent(SumSeq(by_genre[g].top1_correct),
                            Len(by_genre[g].top1_correct)),
       top5_acc |-> Percent(SumSeq(by_genre[g].top5_correct),
                            Len(by_genre[g].top5_correct))]
        : g \in {h \in Genres : h # "Unknown" /\ by_genre[h].top1_correct # <<>>} }

VARIABLES
    genrePc,         \* "idle" | "ready" | "analyzed" | "plotted"
    genre_results,   \* genre -> its lists of flags
    genre_points     \* the points of the Top-5 vs Top-1 plot

genreVars == <<genrePc, genre_results, genre_points>>

GenreIdle ==
    /\ genrePc = "idle"
    /\ genre_results = [g \in Genres |-> NoFlags]
    /\ genre_points = {}

GenreInit ==
    /\ AccInit
    /\ genrePc = "ready"
    /\ genre_results = [g \in Genres |-> NoFlags]
    /\ genre_points = {}

\* analyze_genre_accuracy, on the accuracy file of one configuration
AnalyzeGenreAccuracy ==
    /\ genrePc = "ready"
    /\ accPc = "done"
    /\ LET entries == IF summary = <<>> THEN <<>> ELSE summary[1].detailed_results
       IN \E genre_of \in [1..Len(entries) -> Genres] :
             genre_results' = [g \in Genres |-> FlagsOfGenre(entries, genre_of, g)]
    /\ genrePc' = "analyzed"
    /\ UNCHANGED genre_points

\* _plot_top5_vs_top1_comparison
PlotTop5VsTop1Comparison ==
    /\ genrePc = "analyzed"
    /\ genre_points' = ScatterPoints(genre_results)
    /\ genrePc' = "plotted"
    /\ UNCHANGED genre_results

(***************************************************************************)
(* Specifications                                                          *)
(***************************************************************************)

vars == <<accVars, plotsVars, filesVars, raVars, mivVars, testVars, outVars,
          rankVars, vrVars, peVars, cpVars, ocVars, bestVars, genreVars>>

InitAcc ==
    /\ AccInit /\ PlotsIdle /\ FilesIdle /\ RaIdle /\ MivIdle /\ TestIdle
    /\ OutIdle /\ RankIdle /\ VrIdle /\ PeIdle /\ CpIdle /\ OcIdle
    /\ BestIdle /\ GenreIdle
NextAcc ==
    \/ ProcessResultFile
       /\ UNCHANGED <<plotsVars, filesVars, raVars, mivVars, testVars,
                      outVars, rankVars, vrVars, peVars, cpVars, ocVars,
                      bestVars, genreVars>>
    \/ ReturnSummary
       /\ UNCHANGED <<plotsVars, filesVars, raVars, mivVars, testVars,
                      outVars, rankVars, vrVars, peVars, cpVars, ocVars,
                      bestVars, genreVars>>
SpecAcc == InitAcc /\ [][NextAcc]_vars

InitPlots ==
    /\ PlotsInit /\ AccIdle /\ FilesIdle /\ RaIdle /\ MivIdle /\ TestIdle
    /\ OutIdle /\ RankIdle /\ VrIdle /\ PeIdle /\ CpIdle /\ OcIdle
    /\ BestIdle /\ GenreIdle
NextPlots ==
    \/ MainLoadData
       /\ UNCHANGED <<accVars, filesVars, raVars, mivVars, testVars, outVars,
                      rankVars, vrVars, peVars, cpVars, ocVars, bestVars,
                      genreVars>>
    \/ MainGeneratePlots
       /\ UNCHANGED <<accVars, filesVars, raVars, mivVars, testVars, outVars,
                      rankVars, vrVars, peVars, cpVars, ocVars, bestVars,
                      genreVars>>
SpecPlots == InitPlots /\ [][NextPlots]_vars

InitAnalyzer ==
    /\ RaInit /\ AccIdle /\ PlotsIdle /\ MivIdle /\ TestIdle /\ OutIdle
    /\ RankIdle /\ VrIdle /\ PeIdle /\ CpIdle /\ OcIdle /\ BestIdle
    /\ GenreIdle
NextAnalyzer ==
    \/ RaLoadAllData
       /\ UNCHANGED <<accVars, plotsVars, mivVars, testVars, outVars,
                      rankVars, vrVars, peVars, cpVars, ocVars, bestVars,
                      genreVars>>
    \/ RaCreateAccuracyHeatmap
       /\ UNCHANGED <<accVars, plotsVars, mivVars, testVars, outVars,
                      rankVars, vrVars, peVars, cpVars, ocVars, bestVars,
                      genreVars>>
SpecAnalyzer == InitAnalyzer /\ [][NextAnalyzer]_vars

InitVisualizer ==
    /\ MivInit /\ AccIdle /\ PlotsIdle /\ RaIdle /\ TestIdle /\ OutIdle
    /\ RankIdle /\ VrIdle /\ PeIdle /\ CpIdle /\ OcIdle /\ BestIdle
    /\ GenreIdle
NextVisualizer ==
    \/ MivLoadAllResults
       /\ UNCHANGED <<accVars, plotsVars, raVars, testVars, outVars,
                      rankVars, vrVars, peVars, cpVars, ocVars, bestVars,
                      genreVars>>
SpecVisualizer == InitVisualizer /\ [][NextVisualizer]_vars

InitTestPlots ==
    /\ TestInit /\ AccIdle /\ PlotsIdle /\ RaIdle /\ MivIdle /\ OutIdle
    /\ RankIdle /\ VrIdle /\ PeIdle /\ CpIdle /\ OcIdle /\ BestIdle
    /\ GenreIdle
NextTestPlots ==
    \/ TestLoadAccuracyData
       /\ UNCHANGED <<accVars, plotsVars, raVars, mivVars, outVars, rankVars,
                      vrVars, peVars, cpVars, ocVars, bestVars, genreVars>>
    \/ TestPlotAccuracyHeatmap
       /\ UNCHANGED <<accVars, plotsVars, raVars, mivVars, outVars, rankVars,
                      vrVars, peVars, cpVars, ocVars, bestVars, genreVars>>
    \/ TestPlotMethodComparison
       /\ UNCHANGED <<accVars, plotsVars, raVars, mivVars, outVars, rankVars,
                      vrVars, peVars, cpVars, ocVars, bestVars, genreVars>>
    \/ TestPlotCompressorRanking
       /\ UNCHANGED <<accVars, plotsVars, raVars, mivVars, outVars, rankVars,
                      vrVars, peVars, cpVars, ocVars, bestVars, genreVars>>
    \/ TestPlotFormatComparison
       /\ UNCHANGED <<accVars, plotsVars, raVars, mivVars, outVars, rankVars,
                      vrVars, peVars, cpVars, ocVars, bestVars, genreVars>>
    \/ TestPlotPerformanceOverview
       /\ UNCHANGED <<accVars, plotsVars, raVars, mivVars, outVars, rankVars,
                      vrVars, peVars, cpVars, ocVars, bestVars, genreVars>>
SpecTestPlots == InitTestPlots /\ [][NextTestPlots]_vars

InitOutliers ==
    /\ OutInit /\ AccIdle /\ PlotsIdle /\ FilesIdle /\ RaIdle /\ MivIdle
    /\ TestIdle /\ RankIdle /\ VrIdle /\ PeIdle /\ CpIdle /\ OcIdle
    /\ BestIdle /\ GenreIdle
NextOutliers ==
    \/ TrackOutliers
       /\ UNCHANGED <<accVars, plotsVars, filesVars, raVars, mivVars,
                      testVars, rankVars, vrVars, peVars, cpVars, ocVars,
                      bestVars, genreVars>>
SpecOutliers == InitOutliers /\ [][NextOutliers]_vars

InitRank ==
    /\ RankInit /\ AccIdle /\ PlotsIdle /\ FilesIdle /\ RaIdle /\ MivIdle
    /\ TestIdle /\ OutIdle /\ VrIdle /\ PeIdle /\ CpIdle /\ OcIdle
    /\ BestIdle /\ GenreIdle
NextRank ==
    \/ PlotRankStability
       /\ UNCHANGED <<accVars, plotsVars, filesVars, raVars, mivVars,
                      testVars, outVars, vrVars, peVars, cpVars, ocVars,
                      bestVars, genreVars>>
SpecRank == InitRank /\ [][NextRank]_vars

InitVisualize ==
    /\ VrInit /\ AccIdle /\ PlotsIdle /\ FilesIdle /\ RaIdle /\ MivIdle
    /\ TestIdle /\ OutIdle /\ RankIdle /\ PeIdle /\ CpIdle /\ OcIdle
    /\ BestIdle /\ GenreIdle
NextVisualize ==
    \/ VisualizeMain
       /\ UNCHANGED <<accVars, plotsVars, filesVars, raVars, mivVars,
                      testVars, outVars, rankVars, peVars, cpVars, ocVars,
                      bestVars, genreVars>>
SpecVisualize == InitVisualize /\ [][NextVisualize]_vars

InitAllPlots ==
    /\ RaSweepInit /\ AccIdle /\ PlotsIdle /\ MivIdle /\ TestIdle /\ OutIdle
    /\ RankIdle /\ VrIdle /\ PeIdle /\ CpIdle /\ OcIdle /\ BestIdle
    /\ GenreIdle
NextAllPlots ==
    \/ RaLoadAllData
       /\ UNCHANGED <<accVars, plotsVars, mivVars, testVars, outVars,
                      rankVars, vrVars, peVars, cpVars, ocVars, bestVars,
                      genreVars>>
    \/ RaCreateAccuracyHeatmap
       /\ UNCHANGED <<accVars, plotsVars, mivVars, testVars, outVars,
                      rankVars, vrVars, peVars, cpVars, ocVars, bestVars,
                      genreVars>>
    \/ RaCreateCompressorRanking
       /\ UNCHANGED <<accVars, plotsVars, mivVars, testVars, outVars,
                      rankVars, vrVars, peVars, cpVars, ocVars, bestVars,
                      genreVars>>
    \/ RaCreateFormatComparison
       /\ UNCHANGED <<accVars, plotsVars, mivVars, testVars, outVars,
                      rankVars, vrVars, peVars, cpVars, ocVars, bestVars,
                      genreVars>>
    \/ RaCreateMethodComparison
       /\ UNCHANGED <<accVars, plotsVars, mivVars, testVars, outVars,
                      rankVars, vrVars, peVars, cpVars, ocVars, bestVars,
                      genreVars>>
    \/ RaCreateNoiseComparison
       /\ UNCHANGED <<accVars, plotsVars, mivVars, testVars, outVars,
                      rankVars, vrVars, peVars, cpVars, ocVars, bestVars,
                      genreVars>>
    \/ RaCreatePerformanceOverview
       /\ UNCHANGED <<accVars, plotsVars, mivVars, testVars, outVars,
                      rankVars, vrVars, peVars, cpVars, ocVars, bestVars,
                      genreVars>>
SpecAllPlots == InitAllPlots /\ [][NextAllPlots]_vars

InitEvaluator ==
    /\ PeInit /\ AccIdle /\ PlotsIdle /\ FilesIdle /\ RaIdle /\ MivIdle
    /\ TestIdle /\ OutIdle /\ RankIdle /\ VrIdle /\ CpIdle /\ OcIdle
    /\ BestIdle /\ GenreIdle
NextEvaluator ==
    \/ EvaluateParametersStart
       /\ UNCHANGED <<accVars, plotsVars, filesVars, raVars, mivVars,
                      testVars, outVars, rankVars, vrVars, cpVars, ocVars,
                      bestVars, genreVars>>
    \/ EvaluateParameterSet
       /\ UNCHANGED <<accVars, plotsVars, filesVars, raVars, mivVars,
                      testVars, outVars, rankVars, vrVars, cpVars, ocVars,
                      bestVars, genreVars>>
    \/ EvaluateParametersReturn
       /\ UNCHANGED <<accVars, plotsVars, filesVars, raVars, mivVars,
                      testVars, outVars, rankVars, vrVars, cpVars, ocVars,
                      bestVars, genreVars>>
SpecEvaluator == InitEvaluator /\ [][NextEvaluator]_vars

InitProfile ==
    /\ CpInit /\ AccIdle /\ PlotsIdle /\ FilesIdle /\ RaIdle /\ MivIdle
    /\ TestIdle /\ OutIdle /\ RankIdle /\ VrIdle /\ PeIdle /\ OcIdle
    /\ BestIdle /\ GenreIdle
NextProfile ==
    \/ MainQuit
       /\ UNCHANGED <<accVars, plotsVars, filesVars, raVars, mivVars,
                      testVars, outVars, rankVars, vrVars, peVars, ocVars,
                      bestVars, genreVars>>
    \/ MainIteration
       /\ UNCHANGED <<accVars, plotsVars, filesVars, raVars, mivVars,
                      testVars, outVars, rankVars, vrVars, peVars, ocVars,
                      bestVars, genreVars>>
SpecProfile == InitProfile /\ [][NextProfile]_vars

InitOptimalConfigs ==
    /\ OcInit /\ AccIdle /\ PlotsIdle /\ FilesIdle /\ RaIdle /\ MivIdle
    /\ TestIdle /\ OutIdle /\ RankIdle /\ VrIdle /\ PeIdle /\ CpIdle
    /\ BestIdle /\ GenreIdle
NextOptimalConfigs ==
    \/ GenerateOptimalConfigsNoResults
       /\ UNCHANGED <<accVars, plotsVars, filesVars, raVars, mivVars,
                      testVars, outVars, rankVars, vrVars, peVars, cpVars,
                      bestVars, genreVars>>
    \/ GenerateOptimalConfigs
       /\ UNCHANGED <<accVars, plotsVars, filesVars, raVars, mivVars,
                      testVars, outVars, rankVars, vrVars, peVars, cpVars,
                      bestVars, genreVars>>
SpecOptimalConfigs == InitOptimalConfigs /\ [][NextOptimalConfigs]_vars

InitBest ==
    /\ BestInit /\ AccIdle /\ PlotsIdle /\ FilesIdle /\ RaIdle /\ MivIdle
    /\ TestIdle /\ OutIdle /\ RankIdle /\ VrIdle /\ PeIdle /\ CpIdle
    /\ GenreIdle
NextBest ==
    \/ GenerateOptimalConfigsNoResults
       /\ UNCHANGED <<accVars, plotsVars, filesVars, raVars, mivVars,
                      testVars, outVars, rankVars, vrVars, peVars, cpVars,
                      bestVars, genreVars>>
    \/ GenerateOptimalConfigs
       /\ UNCHANGED <<accVars, plotsVars, filesVars, raVars, mivVars,
                      testVars, outVars, rankVars, vrVars, peVars, cpVars,
                      bestVars, genreVars>>
    \/ GenerateSummary
       /\ UNCHANGED <<accVars, plotsVars, filesVars, raVars, mivVars,
                      testVars, outVars, rankVars, vrVars, peVars, cpVars,
                      ocVars, genreVars>>
    \/ GenerateDetailedReport
       /\ UNCHANGED <<accVars, plotsVars, filesVars, raVars, mivVars,
                      testVars, outVars, rankVars, vrVars, peVars, cpVars,
                      ocVars, genreVars>>
SpecBest == InitBest /\ [][NextBest]_vars

InitLatest ==
    /\ VrInit /\ AccIdle /\ PlotsIdle /\ FilesIdle /\ RaIdle /\ MivIdle
    /\ TestIdle /\ OutIdle /\ RankIdle /\ PeIdle /\ CpIdle /\ OcIdle
    /\ BestIdle /\ GenreIdle
NextLatest ==
    \/ VisualizeMain
       /\ UNCHANGED <<accVars, plotsVars, filesVars, raVars, mivVars,
                      testVars, outVars, rankVars, peVars, cpVars, ocVars,
                      bestVars, genreVars>>
    \/ NewChunkAnalysis
       /\ UNCHANGED <<accVars, plotsVars, filesVars, raVars, mivVars,
                      testVars, outVars, rankVars, peVars, cpVars, ocVars,
                      bestVars, genreVars>>
SpecLatest == InitLatest /\ [][NextLatest]_vars

InitGenre ==
    /\ GenreInit /\ PlotsIdle /\ FilesIdle /\ RaIdle /\ MivIdle /\ TestIdle
    /\ OutIdle /\ RankIdle /\ VrIdle /\ PeIdle /\ CpIdle /\ OcIdle
    /\ BestIdle
NextGenre ==
    \/ ProcessResultFile
       /\ UNCHANGED <<plotsVars, filesVars, raVars, mivVars, testVars,
                      outVars, rankVars, vrVars, peVars, cpVars, ocVars,
                      bestVars, genreVars>>
    \/ ReturnSummary
       /\ UNCHANGED <<plotsVars, filesVars, raVars, mivVars, testVars,
                      outVars, rankVars, vrVars, peVars, cpVars, ocVars,
                      bestVars, genreVars>>
    \/ AnalyzeGenreAccuracy
       /\ UNCHANGED <<accVars, plotsVars, filesVars, raVars, mivVars,
                      testVars, outVars, rankVars, vrVars, peVars, cpVars,
                      ocVars, bestVars>>
    \/ PlotTop5VsTop1Comparison
       /\ UNCHANGED <<accVars, plotsVars, filesVars, raVars, mivVars,
                      testVars, outVars, rankVars, vrVars, peVars, cpVars,
                      ocVars, bestVars>>
SpecGenre == InitGenre /\ [][NextGenre]_vars

(***************************************************************************)
(* Claims                                                                  *)
(***************************************************************************)

\* C1: whenever calculate_accuracy_metrics returns a summary,
\* top1_correct <= top5_correct <= top10_correct <= total_queries and
\* top1_accuracy <= top5_accuracy <= top10_accuracy <= 100; the running
\* counters satisfy the same order after every file.
C1_TopKOrdered ==
    /\ top1_correct <= top5_correct
    /\ top5_correct <= top10_correct
    /\ top10_correct <= total_queries
    /\ summary # <<>> =>
         /\ summary[1].top1_correct <= summary[1].top5_correct
         /\ summary[1].top5_correct <= summary[1].top10_correct
         /\ summary[1].top10_correct <= summary[1].total_queries
         /\ FracLeq(summary[1].top1_accuracy, summary[1].top5_accuracy)
         /\ FracLeq(summary[1].top5_accuracy, summary[1].top10_accuracy)
         /\ FracLeq(summary[1].top10_accuracy, [num |-> 100, den |-> 1])

\* C1 witness: a summary was returned in which a query counted for top-5 did
\* not count for top-1 and a query was found in no top-K at all
C1_Witness ==
    /\ summary # <<>>
    /\ summary[1].top1_correct >= 1
    /\ summary[1].top1_correct < summary[1].top5_correct

\* C2 (as claimed): for K in {1, 5, 10} the returned topK_correct is the
\* number of processed queries whose ground truth fuzzy-matches one of the
\* first K entries of the result file, whatever rank numbers the rows carry.
C2_TopKByPosition ==
    summary # <<>> =>
        /\ summary[1].top1_correct = position_hits.top1
        /\ summary[1].top5_correct = position_hits.top5
        /\ summary[1].top10_correct = position_hits.top10

\* the File values of the CSV rows that have a ModelSize == 0 row
ZeroSizeFiles ==
    {FileStem(csv_rows[i].File) :
        i \in {j \in 1..Len(csv_rows) : csv_rows[j].ModelSize = 0}}

\* C3: after load_data no remaining row belongs to a File that has a row
\* with ModelSize == 0, and generate_plots gives such a File no per-sequence
\* plot, no metrics_summary entry and no place in a cross-sequence aggregate.
C3_ZeroSizeExcluded ==
    /\ plotsPc \in {"loaded", "done"} =>
         \A i \in 1..Len(df) : df[i].File \notin ZeroSizeFiles
    /\ plotsPc = "done" =>
         /\ DOMAIN seq_plots \cap ZeroSizeFiles = {}
         /\ DOMAIN metrics_summary \cap ZeroSizeFiles = {}
         /\ aggregate_files \cap ZeroSizeFiles = {}

\* C3 witness: plots were generated from a table in which one File had a
\* ModelSize == 0 row among others and another File had none
C3_Witness ==
    /\ plotsPc = "done"
    /\ ZeroSizeFiles # {}
    /\ \E i \in 1..Len(csv_rows) :
          /\ FileStem(csv_rows[i].File) \in ZeroSizeFiles
          /\ csv_rows[i].ModelSize # 0
    /\ aggregate_files # {}

\* C4 (as claimed): for every permutation of the input rows save_metrics
\* writes the same per-step mean/min/max and the same per-(k, alpha) average
\* change, and plot_convergence_analysis computes the same mean change.
C4_RowOrderInvariant ==
    plotsPc = "done" =>
        \A perm \in Permutations(1..Len(csv_rows)) :
            LET permuted == [i \in 1..Len(csv_rows) |-> csv_rows[perm[i]]]
            IN /\ save_metrics(load_data(permuted)) = metrics_summary
               /\ sequence_plots(load_data(permuted)) = seq_plots

\* C9 (as claimed): when the input file does not exist the entry point
\* returns early and no exception propagates to the caller.
C9_MissingInputNoException ==
    ~csv_exists => plotsPc # "raised"

\* whether the accuracy file of a cell exists, loads and carries a top-1 value
CellHasData(method, format_type, noise, compressor) ==
    /\ accuracy_files[<<method, format_type, noise, compressor>>].kind = "json"
    /\ accuracy_files[<<method, format_type, noise, compressor>>].top1_accuracy # None

HeatmapCells == Range(methods) \X Range(formats) \X Range(compressors)

CellsWithData(noise) ==
    {c \in HeatmapCells : CellHasData(c[1], c[2], noise, c[3])}

\* every combination is in the loaded data or in the missing list, never both
LoadPartitions ==
    /\ DOMAIN data \cap Range(missing_combinations) = {}
    /\ DOMAIN data \cup Range(missing_combinations) = Combinations
    /\ Cardinality(DOMAIN data) + Len(missing_combinations) = TotalCombinations

\* C5 (as claimed): load_all_data puts every combination in the loaded data
\* or in the missing list, never both, and create_accuracy_heatmap marks every
\* cell without data 'N/A' and reports missing = total - available in the
\* subplot title.
C5_EveryMissingCellMarked ==
    /\ raPc \in {"loaded", "heatmap"} => LoadPartitions
    /\ raPc = "heatmap" =>
         /\ "accuracy_heatmap" \in ra_pngs
         /\ \A noise \in Range(noises) :
              /\ \A c \in HeatmapCells \ CellsWithData(noise) :
                    heatmap[noise].annotation[c] = "N/A"
              /\ CellsWithData(noise) # HeatmapCells =>
                    heatmap[noise].title.missing
                        = Cardinality(HeatmapCells) - Cardinality(CellsWithData(noise))

\* C5 (amended): load_all_data puts every combination in the loaded data or in
\* the missing list, never both; create_accuracy_heatmap saves its figure and,
\* in the subplot of every noise that has at least one cell with data, marks
\* exactly the cells without data 'N/A' and reports missing = total -
\* available in the title when a cell is missing; the subplot of a noise with
\* no data at all carries the text 'No data available', no cell marks and no
\* missing count.
C5_MissingCellsOfDrawnNoiseMarked ==
    /\ raPc \in {"loaded", "heatmap"} => LoadPartitions
    /\ raPc = "heatmap" =>
         /\ "accuracy_heatmap" \in ra_pngs
         /\ \A noise \in Range(noises) :
              IF CellsWithData(noise) # {}
              THEN /\ heatmap[noise].drawn
                   /\ \A c \in HeatmapCells :
                        heatmap[noise].annotation[c] = "N/A"
                            <=> c \notin CellsWithData(noise)
                   /\ CellsWithData(noise) # HeatmapCells =>
                        heatmap[noise].title.missing
                            = Cardinality(HeatmapCells) - Cardinality(CellsWithData(noise))
                   /\ CellsWithData(noise) = HeatmapCells =>
                        heatmap[noise].title.missing = None
              ELSE /\ ~heatmap[noise].drawn
                   /\ \A c \in HeatmapCells : heatmap[noise].annotation[c] # "N/A"
                   /\ heatmap[noise].title.missing = None

\* C5 witness: the heatmap was created with a noise that has some cells with
\* data and some without, a noise with no data at all, and a missing list
C5_Witness ==
    /\ raPc = "heatmap"
    /\ missing_combinations # <<>>
    /\ \E noise \in Range(noises) :
          CellsWithData(noise) # {} /\ CellsWithData(noise) # HeatmapCells
    /\ \E noise \in Range(noises) : CellsWithData(noise) = {}

\* C6 (as claimed): for every non-empty subset of the accuracy files main
\* generates all five plots without raising.
C6_AllPlotsForAnySubset ==
    /\ testPc # "raised"
    /\ (testPc = "returned" /\ test_df # {}) =>
          test_pngs = {"accuracy_heatmap", "method_comparison", "compressor_ranking",
                       "format_comparison", "performance_overview"}

\* a file on which the try body of a loader raises: it cannot be opened or
\* parsed, or its top1_accuracy is not a number
BadFile(file) ==
    \/ file.kind = "unreadable"
    \/ file.kind = "json" /\ file.top1_accuracy = None

\* the same directory tree without its bad files
WithoutBadFiles(files) ==
    [c \in Combinations |-> IF BadFile(files[c]) THEN AbsentFile ELSE files[c]]

\* C10 (as claimed, for MusicIdentificationVisualizer.load_all_results): with
\* bad files in the batch the loader returns the data it returns when the bad
\* files are absent.
C10_BadFileAsAbsent ==
    mivPc = "loaded" =>
        results_data = load_all_results(results_dir, WithoutBadFiles(accuracy_files))

\* the rows of out_df in the group of k
GroupIndices(k) == {i \in 1..Len(out_df) : out_df[i].k = k}

\* how many entries of outliers_data report a row of group k with this nrc
FlaggedCount(k, nrc) ==
    Cardinality({i \in 1..Len(outliers_data) :
                    outliers_data[i].k = k /\ outliers_data[i].nrc = nrc})

\* nrc lies strictly outside [Q1 - 1.5 IQR, Q3 + 1.5 IQR] of the group of k
StrictlyOutside(k, nrc) ==
    LET values == NrcValues(KData(out_df, k))
        q1 == quantile(values, 1)
        q3 == quantile(values, 3)
    IN \/ 8 * nrc < 2 * q1 - 3 * (q3 - q1)
       \/ 8 * nrc > 2 * q3 + 3 * (q3 - q1)

\* C7: track_outliers flags a row as an outlier of its k group if and only if
\* its nrc is strictly below Q1 - 1.5*IQR or strictly above Q3 + 1.5*IQR of
\* that group; a group whose nrc values are all equal yields no outlier; and
\* when no group has an outlier no outlier CSV, plot or summary file is
\* written.
C7_OutliersStrictlyOutsideBounds ==
    outPc = "returned" =>
        /\ \A i \in 1..Len(out_df) :
              FlaggedCount(out_df[i].k, out_df[i].nrc) =
                 IF StrictlyOutside(out_df[i].k, out_df[i].nrc)
                 THEN Cardinality({j \in GroupIndices(out_df[i].k) :
                                      out_df[j].nrc = out_df[i].nrc})
                 ELSE 0
        /\ \A i \in 1..Len(outliers_data) :
              \E j \in 1..Len(out_df) :
                  out_df[j].k = outliers_data[i].k /\ out_df[j].nrc = outliers_data[i].nrc
        /\ \A i \in 1..Len(out_df) :
              (\A j \in GroupIndices(out_df[i].k) : out_df[j].nrc = out_df[i].nrc)
                  => \A e \in Range(outliers_data) : e.k # out_df[i].k
        /\ outliers_data = <<>> => out_files = {}
        /\ outliers_data # <<>> => out_files = OutlierFiles

\* C7 witness: track_outliers returned with a group that has a flagged row and
\* rows that are not flagged, and a second group of equal values
C7_Witness ==
    /\ outPc = "returned"
    /\ out_files = OutlierFiles
    /\ \E i, j \in 1..Len(out_df) :
          /\ out_df[i].k = out_df[j].k
          /\ FlaggedCount(out_df[i].k, out_df[i].nrc) > 0
          /\ FlaggedCount(out_df[j].k, out_df[j].nrc) = 0
    /\ \E i \in 1..Len(out_df) : \A e \in Range(outliers_data) : e.k # out_df[i].k

\* the rows of rank_df of an organism
OrganismRows(organism) == {j \in 1..Len(rank_df) : rank_df[j].name = organism}

RECURSIVE SumRanks(_)
SumRanks(J) ==
    IF J = {} THEN 0
    ELSE LET j == CHOOSE j \in J : TRUE
         IN rank_df[j].rank + SumRanks(J \ {j})

\* the matrix has a column for every (k, alpha) pair with a row of the
\* organism, and the cell of a column holds the rank of the first row of that
\* pair, NaN when the organism has none
RankMatrixListsRanks ==
    \A i \in 1..Len(row_labels) :
        LET organism == common_top_organisms(rank_df)[i]
            columns == MatrixColumns(rank_df)
        IN /\ \A j \in OrganismRows(organism) :
                 \E c \in 1..Len(columns) :
                    /\ columns[c] = [k |-> rank_df[j].k, alpha |-> rank_df[j].alpha]
                    /\ rank_matrix[i][c] # NaN
           /\ \A c \in 1..Len(columns) :
                 LET J == {j \in OrganismRows(organism) :
                              /\ rank_df[j].k = columns[c].k
                              /\ rank_df[j].alpha = columns[c].alpha}
                 IN rank_matrix[i][c] = IF J = {} THEN NaN ELSE rank_df[MinOf(J)].rank

C11_InputFolderUntouched ==
    \A f \in vr_input0 : f \in vr_files

\* C12 (as claimed): two runs of the script on the same input files write the
\* same output paths with the same contents.
C12_RunsWriteTheSame ==
    (Len(vr_runs) = 2 /\ vr_runs[1].input = vr_runs[2].input)
        => vr_runs[1].written = vr_runs[2].written

\* C13 (as claimed): for the layout results/compressors/{dataset}/{method}/
\* {format}/{noise}_{compressor}/accuracy_metrics_{compressor}.json,
\* load_all_results labels each loaded file with the (method, format, noise,
\* compressor) that load_all_data uses as its key, with the same accuracy
\* value, and loads the same files.
C13_LoadersAgree ==
    mivPc = "loaded" =>
        LET loaded_data == load_all_data(accuracy_files).data
        IN /\ \A e \in results_data :
                 \E key \in DOMAIN loaded_data :
                    /\ <<e.method, e.format, e.noise, e.compressor>> = key
                    /\ e.top1_accuracy = loaded_data[key].top1_accuracy
           /\ \A key \in DOMAIN loaded_data :
                 \E e \in results_data :
                    <<e.method, e.format, e.noise, e.compressor>> = key

\* the PNG of each of the six create_* steps of generate_all_plots
AllPlotsPngs ==
    {"accuracy_heatmap", "compressor_ranking", "format_comparison",
     "method_comparison", "noise_comparison", "performance_overview"}

\* C14 (as claimed): after generate_all_plots returns, the output directory
\* holds one PNG written by each of the six create_* steps it calls.
C14_SixPngsAfterReturn ==
    raPc = "returned" => ra_pngs = AllPlotsPngs

\* C15: evaluate_parameters visits every parameter set in order; a failed
\* feature extraction skips only that parameter set and a failed
\* identification only that (parameter set, compressor) pair; the returned
\* list holds exactly one entry, in visiting order, per pair whose
\* identification returned metrics; and current_config never exceeds
\* total_configs.
C15_OneResultPerSuccessfulPair ==
    pePc \in {"loop", "returned"} =>
        LET returned_metrics == SelectSeq(pe_visits, LAMBDA v : v.metrics # None)
        IN /\ current_config <= total_configs
           /\ current_config = Len(pe_visits)
           /\ Len(pe_log) = pe_next - 1
           /\ pePc = "returned" => Len(pe_log) = Len(parameter_sets)
           /\ \A i \in 1..Len(pe_log) :
                 /\ pe_log[i].params = parameter_sets[i]
                 /\ \A c \in 1..Len(pe_compressors) :
                       pe_log[i].ended = "tested" <=>
                          \E j \in 1..Len(pe_visits) :
                             /\ pe_visits[j].set = i
                             /\ pe_visits[j].compressor = pe_compressors[c]
           /\ \A i, j \in 1..Len(pe_visits) :
                 i < j => \/ pe_visits[i].set < pe_visits[j].set
                          \/ /\ pe_visits[i].set = pe_visits[j].set
                             /\ pe_visits[i].compressor # pe_visits[j].compressor
           /\ Len(results) = Len(returned_metrics)
           /\ \A i \in 1..Len(results) :
                 /\ results[i].config_name
                       = config_name_of(parameter_sets[returned_metrics[i].set])
                 /\ results[i].compressor = returned_metrics[i].compressor
                 /\ results[i].top1_accuracy = returned_metrics[i].metrics

\* C15 witness: a run returned after a parameter set skipped for a failed
\* extraction and a parameter set tested with two compressors, one
\* identification failing and one returning metrics
C15_Witness ==
    /\ pePc = "returned"
    /\ Len(pe_log) = 2
    /\ pe_log[1].ended # "tested"
    /\ pe_log[2].ended = "tested"
    /\ Len(pe_visits) = 2
    /\ \E i \in 1..2 : pe_visits[i].metrics = None
    /\ Len(results) = 1

\* C16 (as claimed): database features of a configuration are extracted if
\* and only if they have not been extracted already: identification is never
\* run against a db_features directory whose extraction failed or timed out,
\* and a successful extraction is never repeated.
C16_DbFeaturesExtractedOnce ==
    /\ \A i \in 1..Len(pe_visits) : pe_visits[i].db_features = "complete"
    /\ \A n \in ConfigNames : pe_db_extractions[n] <= 1

\* C17 (as claimed): when compute_complexity_profile_matrix rejects k (k = 0
\* or k greater than the sequence length) process_complexity_profile writes
\* no plot and raises no exception.
C17_RejectedKIsSkipped ==
    (cp_call.called /\ (cp_call.k = 0 \/ cp_call.k > Len(cp_sequence)))
        => ~cp_call.plot /\ cpPc # "raised"

\* C18 (as claimed): process_complexity_profile is only called with a k
\* parsed as a non-negative integer from the k entered in the same iteration;
\* after a non-integer or negative entry nothing is processed and the loop
\* asks again.
C18_ProcessedKIsEnteredK ==
    /\ cp_call.called =>
          /\ ParseInt(cp_k_value).ok
          /\ ParseInt(cp_k_value).value >= 0
          /\ cp_call.k = ParseInt(cp_k_value).value
    /\ (cp_entries > 0 /\ ~(ParseInt(cp_k_value).ok /\ ParseInt(cp_k_value).value >= 0))
          => ~cp_call.called /\ cpPc # "raised"

\* C19 (as claimed): for 1 <= k <= len(s) every row label of the matrix is a
\* context of exactly k symbols, each cell (c, x) is the number of positions
\* i with s[i:i+k] = c and s[i+k] = x, and Sum is the total of its row.
C19_RowsAreContextsOfKSymbols ==
    (cp_call.called /\ cp_call.matrix.kind = "matrix") =>
        LET k == cp_call.k
            s == cp_sequence
            rows == cp_call.matrix.rows
            Positions(c, x) ==
                {i \in 1..(Len(s) - k) : SubSeq(s, i, i + k - 1) = c /\ s[i + k] = x}
        IN \A c \in DOMAIN rows :
              /\ Len(c) = k
              /\ \A x \in DOMAIN rows[c].cells :
                    rows[c].cells[x] = Cardinality(Positions(c, x))
              /\ rows[c].Sum =
                    Cardinality({i \in 1..(Len(s) - k) : SubSeq(s, i, i + k - 1) = c})

\* C20: after generate_optimal_configs has run on non-empty results, every file
\* the usage recommendations of optimization_summary.txt name is in the output
\* directory and is listed under 'Generated Configurations'.
C20_RecommendedConfigsGenerated ==
    ocPc = "returned" =>
        \A f \in oc_summary.usage :
            f \in oc_files /\ f \in Range(oc_summary.generated)

\* the fast and the accurate subset as generate_optimal_configs selects them
FastSubset(rows) ==
    {r \in rows : /\ r.frameSize <= 1024
                  /\ \/ r.method = "maxfreq" /\ r.numFrequencies <= 4
                     \/ r.method = "spectral" /\ r.numBins <= 32}

AccurateSubset(rows) ==
    {r \in rows : /\ r.frameSize >= 1024
                  /\ \/ r.method = "maxfreq" /\ r.numFrequencies >= 6
                     \/ r.method = "spectral" /\ r.numBins >= 64}

\* the two subsets read without the method of the result
FastSubsetAnyMethod(rows) ==
    {r \in rows : r.frameSize <= 1024 /\ (r.numFrequencies <= 4 \/ r.numBins <= 32)}

AccurateSubsetAnyMethod(rows) ==
    {r \in rows : r.frameSize >= 1024 /\ (r.numFrequencies >= 6 \/ r.numBins >= 64)}

\* the file was written from a result of S whose accuracy is maximal in S
WrittenFromMaximal(S, file) ==
    /\ file \in DOMAIN oc_written
    /\ \E r \in S :
          /\ oc_written[file].config = config_of(r)
          /\ oc_written[file].accuracy = r.top1_accuracy
          /\ \A q \in S : q.top1_accuracy <= r.top1_accuracy

\* what C21 says of the files that do not depend on the two subsets
OverallAndMethodConfigsMaximal ==
    LET rows == Range(oc_results)
    IN  /\ WrittenFromMaximal(rows, "optimal_overall.json")
        /\ \A m \in {r.method : r \in rows} :
              WrittenFromMaximal({r \in rows : r.method = m},
                                 config_file("optimal_" \o m))
        /\ \A f \in DOMAIN oc_written :
              oc_written[f].accuracy <= oc_written["optimal_overall.json"].accuracy

\* C21 (as stated): the configurations are written from maximal results, where
\* the fast subset is frameSize <= 1024 with numFrequencies <= 4 or numBins <= 32
\* and the accurate subset frameSize >= 1024 with numFrequencies >= 6 or
\* numBins >= 64, whatever the method; the two subsets are disjoint.
C21_SubsetsOfAnyMethod ==
    ocPc = "returned" =>
        LET rows == Range(oc_results)
        IN  /\ OverallAndMethodConfigsMaximal
            /\ "optimal_fast.json" \in DOMAIN oc_written =>
                  WrittenFromMaximal(FastSubsetAnyMethod(rows), "optimal_fast.json")
            /\ "optimal_accurate.json" \in DOMAIN oc_written =>
                  WrittenFromMaximal(AccurateSubsetAnyMethod(rows),
                                     "optimal_accurate.json")
            /\ FastSubsetAnyMethod(rows) \cap AccurateSubsetAnyMethod(rows) = {}

\* C21 (amended): optimal_overall.json is written from a result of maximal
\* top1_accuracy, optimal_<method>.json from one maximal within its method,
\* optimal_fast.json / optimal_accurate.json from one maximal within the fast
\* subset (frameSize <= 1024 and maxfreq with numFrequencies <= 4 or spectral
\* with numBins <= 32) / the accurate subset (frameSize >= 1024 and maxfreq with
\* numFrequencies >= 6 or spectral with numBins >= 64), each written exactly
\* when its subset is not empty; the subsets are disjoint and no generated
\* configuration has a greater accuracy than the overall one.
C21_ConfigsFromMaximalResults ==
    ocPc = "returned" =>
        LET rows == Range(oc_results)
        IN  /\ OverallAndMethodConfigsMaximal
            /\ IF FastSubset(rows) # {}
               THEN WrittenFromMaximal(FastSubset(rows), "optimal_fast.json")
               ELSE "optimal_fast.json" \notin DOMAIN oc_written
            /\ IF AccurateSubset(rows) # {}
               THEN WrittenFromMaximal(AccurateSubset(rows), "optimal_accurate.json")
               ELSE "optimal_accurate.json" \notin DOMAIN oc_written
            /\ FastSubset(rows) \cap AccurateSubset(rows) = {}

\* a run that wrote both optimal_fast.json and optimal_accurate.json from a
\* results list with a result outside the subset each was chosen from
C21_Witness ==
    /\ ocPc = "returned"
    /\ {"optimal_fast.json", "optimal_accurate.json"} \subseteq DOMAIN oc_written
    /\ FastSubset(Range(oc_results)) # FastSubsetAnyMethod(Range(oc_results))
    /\ oc_written["optimal_fast.json"].accuracy
           < oc_written["optimal_overall.json"].accuracy

\* the first entry, in list order, of the greatest top1_accuracy
FirstMaximum(rows) ==
    rows[CHOOSE i \in 1..Len(rows) :
            /\ \A j \in 1..Len(rows) : rows[j].top1_accuracy <= rows[i].top1_accuracy
            /\ \A j \in 1..(i - 1) : rows[j].top1_accuracy < rows[i].top1_accuracy]

\* C22: on a non-empty results list, ties included, generate_summary,
\* generate_optimal_configs (best_overall) and generate_detailed_report choose
\* the same result entry, the first in list order that attains the maximum.
C22_SameBestConfiguration ==
    /\ summary_best.status = "printed" => summary_best.best = FirstMaximum(oc_results)
    /\ ocPc = "returned" => oc_summary.best_overall = FirstMaximum(oc_results)
    /\ report_best.status = "written" => report_best.best = FirstMaximum(oc_results)

\* all three have run on a list whose maximum is attained by two different entries
C22_Witness ==
    /\ summary_best.status = "printed"
    /\ ocPc = "returned"
    /\ report_best.status = "written"
    /\ \E i, j \in 1..Len(oc_results) :
          /\ i < j
          /\ oc_results[i] # oc_results[j]
          /\ oc_results[i].top1_accuracy = oc_results[j].top1_accuracy
          /\ oc_results[i] = FirstMaximum(oc_results)

\* the files of S below dir, by their path relative to dir
Below(S, dir) ==
    { [name |-> SubSeq(f.path, Len(dir) + 1, Len(f.path)), content |-> f.content]
        : f \in {g \in S : IsPrefix(dir, g.path)} }

\* C23: after a successful run of visualize_results.main, whatever runs came
\* before, 'latest' holds exactly the files that run wrote into it, and the
\* timestamped directory of the run received the same output files.
C23_LatestHoldsLastRun ==
    (vrPc = "returned" /\ vr_runs # <<>>) =>
        LET last == vr_runs[Len(vr_runs)]
            latest_dir == vr_output \o <<"latest">>
            timestamp_dir == vr_output \o <<last.timestamp>>
        IN  /\ Below(vr_files, latest_dir) = Below(last.written, latest_dir)
            /\ Below(last.written, latest_dir) # {}
            /\ Below(last.written, timestamp_dir) = Below(last.written, latest_dir)
            /\ Below(last.written, timestamp_dir) \subseteq Below(vr_files, timestamp_dir)

\* a second successful run that no longer draws the chunk analysis the first
\* run had left in 'latest'
C23_Witness ==
    /\ vrPc = "returned"
    /\ Len(vr_runs) = 2
    /\ \E f \in Below(vr_runs[1].written, vr_output \o <<"latest">>) :
          /\ f.name = <<"chunk_analysis_visualization.png">>
          /\ f \notin Below(vr_files, vr_output \o <<"latest">>)
    /\ Below(vr_runs[2].written, vr_output \o <<"latest">>) # {}

\* C24: for detailed_results produced by calculate_accuracy_metrics every query
\* gets top-1 flag <= top-5 flag <= top-10 flag from analyze_genre_accuracy, so
\* no point of the Top-5 vs Top-1 plot lies below the diagonal.
C24_GenreFlagsOrdered ==
    /\ \A g \in Genres : \A i \in 1..Len(genre_results[g].top1_correct) :
          /\ genre_results[g].top1_correct[i] <= genre_results[g].top5_correct[i]
          /\ genre_results[g].top5_correct[i] <= genre_results[g].top10_correct[i]
    /\ \A p \in genre_points : FracLeq(p.top1_acc, p.top5_acc)

====
